---------------------------- MODULE Spec2Model ----------------------------
(***************************************************************************)
(* A model of the exec protocol of garden-io/mutagen and of what is around *)
(* it in the repository:                                                   *)
(*   - protocolHandler.Connect (pkg/synchronization/protocols/exec), the   *)
(*     cancellable dial: the caller and the dial worker, the unbuffered    *)
(*     results channel and the context's Done channel;                     *)
(*   - parseExec (pkg/url), the quote-aware split of an exec URL;          *)
(*   - execTransport (pkg/agent/transport/exec): Copy, Command (both       *)
(*     copies of the file) and ClassifyError;                              *)
(*   - the dialer's hypothesis/retry loop that reacts to ClassifyError;    *)
(*   - ServeEndpoint (session), the RPC server over a multiplexed stream;  *)
(*   - the compose commands stop and start (cmd/mutagen/compose) with      *)
(*     compose.LoadProject and Project.Dispose (pkg/compose).              *)
(* Specifications: Spec and SpecFair (Connect), SpecParse (parseExec),     *)
(* SpecCommand (calls of Command), SpecClassify (calls of ClassifyError),  *)
(* SpecDial and SpecDialFair (the retry loop), SpecServe and SpecServeFair *)
(* (ServeEndpoint), SpecCompose (stop, start and LoadProject).             *)
(***************************************************************************)
EXTENDS Integers, Sequences, FiniteSets, TLC

VARIABLES
    \* ---- protocolHandler.Connect ----
    url,            \* the *urlpkg.URL argument
    ctxDone,        \* TRUE once ctx.Done() is closed
    callerPc,       \* position of the goroutine running Connect
    workerPc,       \* position of the dialing goroutine
    transport,      \* the execTransport built from url.Host and prompter
    dialed,         \* (stream, err) as returned by agent.Dial in the worker
    result,         \* the dialResult received by the caller from results
    streamState,    \* "none" | "open" | "closed": the stream agent.Dial made
    streamOwner,    \* "none" | "worker" | "caller": who holds the stream
    offered,        \* number of times the worker reached its send on results
    received,       \* number of dialResults the caller received from results
    connectReturn,  \* what Connect returned (or that it panicked)
    \* ---- parseExec ----
    raw,            \* the URL text after the "exec:" prefix, a sequence of runes
    kind,           \* the kind argument of parseExec
    pos,            \* number of runes FieldsFunc has passed to the closure
    quoted,         \* the closure's variable quoted
    quoteMark,      \* the closure's variable quoteMark
    start,          \* FieldsFunc's start: first index of the open field, 0 if none
    split,          \* the fields found so far
    seps,           \* the indices at which the closure returned true
    parsePc,        \* "idle" | "scan" | "fields" | "done"
    parsed,         \* what parseExec returned
    \* ---- execTransport ----
    t,              \* the receiver: the execTransport's command and prompter
    goos,           \* runtime.GOOS of the build
    calls,          \* the calls of Command made so far, each with its result
    \* ---- the dialer's hypothesis/retry loop ----
    hypothesis,     \* the OS hypothesis: POSIXShell or WindowsCmd
    attempts,       \* the number of attempts made so far
    loopPc,         \* "idle" | "attempt" | "failed" | "done"
    failure,        \* the process state and error output of the failed attempt
    classification, \* what ClassifyError returned for failure, None before
    dialReturn,     \* what the loop returned, None while it runs
    installs,       \* the number of remote installations performed
    remote,         \* the files on the remote
    copyReturns,    \* the errors the calls of Copy returned, in order
    \* ---- ServeEndpoint ----
    serveStream,    \* the stream argument
    multiplexer,    \* the muxado session over the stream
    client,         \* the RPC client over the multiplexer
    theEndpoint,    \* the endpoint object
    server,         \* the RPC server with its handlers
    servePc,        \* "idle" | "start" | "accept" | "failed" | "returned"
    substreams,     \* the sub-streams accepted so far
    acceptErr,      \* the error with which accepting failed, None before
    serveReturn,    \* what ServeEndpoint returned
    \* ---- the compose commands stop and start, with LoadProject ----
    composeCommand, \* "stop" | "start"
    arguments,      \* the service names given to the command
    composePc,      \* "idle" | "check" | "load" | "body" | "loaded" | "pause" |
                    \* "invoke" | "resume" | "done"
    fs,             \* the paths that exist in the temporary location
    temporaryDirectory, \* LoadProject's temporaryDirectory
    successful,     \* LoadProject's successful
    project,        \* the command's project
    loadReturn,     \* what LoadProject returned
    invoked,        \* the pass-through made, None before
    invokeResult,   \* what the pass-through returned
    daemonConnection, \* "none" | "closed": the connection of pause/resume
    events,         \* the calls made so far, in order
    composeReturn   \* what the command returned

connectVars == <<url, ctxDone, callerPc, workerPc, transport, dialed, result,
                 streamState, streamOwner, offered, received, connectReturn>>
parseVars == <<raw, kind, pos, quoted, quoteMark, start, split, seps, parsePc, parsed>>
commandVars == <<t, goos, calls>>
dialVars == <<hypothesis, attempts, loopPc, failure, classification, dialReturn,
              installs, remote, copyReturns>>
serveVars == <<serveStream, multiplexer, client, theEndpoint, server, servePc,
               substreams, acceptErr, serveReturn>>
composeVars == <<composeCommand, arguments, composePc, fs, temporaryDirectory,
                 successful, project, loadReturn, invoked, invokeResult,
                 daemonConnection, events, composeReturn>>
vars == <<connectVars, parseVars, commandVars, dialVars, serveVars, composeVars>>

-----------------------------------------------------------------------------
(* Bounds *)

\* The largest number of entries of url.Environment and of url.Parameters.
MaxEntries == 1
\* The largest length of the text after the "exec:" prefix.
MaxLen == 5
\* The largest number of pieces a stored command is put together from.
MaxPieces == 3
\* The largest number of fragments of an error output.
MaxFragments == 2
\* The largest number of attempts of one logical connect.
MaxAttempts == 3
\* The largest number of calls of Copy.
MaxCopies == 2
\* The largest number of sub-streams accepted.
MaxAccepts == 2
\* The largest number of service names given to a compose command.
MaxArguments == 2

-----------------------------------------------------------------------------
(* Values *)

\* A nil stream (streams are named by strings).
Nil == "nil"
\* A nil error, endpoint, transport or result (these are records).
None == [none |-> TRUE]

Kinds == {"Synchronization", "Forwarding"}
Protocols == {"Local", "SSH", "Exec"}
EntryKeys == 1 .. MaxEntries

\* The URLs Connect may be called with.
URLs == [Kind : Kinds, Protocol : Protocols, Host : {"/bin/kubectl exec pod"},
         Path : {"/srv"}, Environment : SUBSET EntryKeys,
         Parameters : SUBSET EntryKeys]

Prompter == "prompter"

\* What agent.Dial returns: a stream and no error, or no stream and an error.
DialErrors == {[message |-> "dial failed", wraps |-> None]}
DialOutcomes == {[stream |-> "stream", error |-> None]}
                  \cup {[stream |-> Nil, error |-> e] : e \in DialErrors}

\* What remote.NewEndpoint returns for a stream and a path.
NewEndpointOutcomes(stream, path) ==
    { [endpoint |-> [stream |-> stream, path |-> path], error |-> None],
      [endpoint |-> None, error |-> [message |-> "remote endpoint failed", wraps |-> None]] }

\* fmt.Errorf("...: %w", err): the message and the wrapped error.
Wrap(message, err) == [message |-> message, wraps |-> err]

\* errors.New(message)
NewError(message) == [message |-> message, wraps |-> None]

Return(endpoint, err) == [kind |-> "return", endpoint |-> endpoint, error |-> err]
Panic(message) == [kind |-> "panic", message |-> message]
NotReturned == [kind |-> "running"]

-----------------------------------------------------------------------------
(* protocolHandler.Connect *)

InitConnect ==
    /\ url \in URLs
    /\ ctxDone = FALSE
    /\ callerPc = "verify"
    /\ workerPc = "idle"
    /\ transport = None
    /\ dialed = None
    /\ result = None
    /\ streamState = "none"
    /\ streamOwner = "none"
    /\ offered = 0
    /\ received = 0
    /\ connectReturn = NotReturned

\* The caller's context is cancelled (by whoever owns it), at any time.
Cancel ==
    /\ ~ctxDone
    /\ ctxDone' = TRUE
    /\ UNCHANGED <<url, callerPc, workerPc, transport, dialed, result,
                   streamState, streamOwner, offered, received, connectReturn>>

\* VerifyURL with the environment check moved in front of the panics.
VerifyURLAfterEnvironment ==
    /\ callerPc = "verify"
    /\ IF Cardinality(url.Environment) > 0
         THEN /\ callerPc' = "returned"
              /\ connectReturn' = Return(None, NewError("exec URL contains environment variables"))
         ELSE IF url.Kind /= "Synchronization"
         THEN /\ callerPc' = "panicked"
              /\ connectReturn' = Panic("non-synchronization URL dispatched to synchronization protocol handler")
         ELSE IF url.Protocol /= "Exec"
         THEN /\ callerPc' = "panicked"
              /\ connectReturn' = Panic("non-Exec URL dispatched to Exec protocol handler")
         ELSE /\ callerPc' = "validate"
              /\ UNCHANGED connectReturn
    /\ UNCHANGED <<url, ctxDone, workerPc, transport, dialed, result,
                   streamState, streamOwner, offered, received>>

\* Verify that the URL is of the correct kind and protocol.
VerifyURL ==
    /\ callerPc = "verify"
    /\ IF url.Kind /= "Synchronization"
         THEN /\ callerPc' = "panicked"
              /\ connectReturn' = Panic("non-synchronization URL dispatched to synchronization protocol handler")
         ELSE IF url.Protocol /= "Exec"
         THEN /\ callerPc' = "panicked"
              /\ connectReturn' = Panic("non-Exec URL dispatched to Exec protocol handler")
         ELSE /\ callerPc' = "validate"
              /\ UNCHANGED connectReturn
    /\ UNCHANGED <<url, ctxDone, workerPc, transport, dialed, result,
                   streamState, streamOwner, offered, received>>

\* ValidateURL with the two checks in the other order.
ValidateURLParametersFirst ==
    /\ callerPc = "validate"
    /\ IF Cardinality(url.Parameters) > 0
         THEN /\ callerPc' = "returned"
              /\ connectReturn' = Return(None, NewError("exec URL contains internal parameters"))
         ELSE IF Cardinality(url.Environment) > 0
         THEN /\ callerPc' = "returned"
              /\ connectReturn' = Return(None, NewError("exec URL contains environment variables"))
         ELSE /\ callerPc' = "transport"
              /\ UNCHANGED connectReturn
    /\ UNCHANGED <<url, ctxDone, workerPc, transport, dialed, result,
                   streamState, streamOwner, offered, received>>

\* Ensure that no environment variables or parameters are specified.
ValidateURL ==
    /\ callerPc = "validate"
    /\ IF Cardinality(url.Environment) > 0
         THEN /\ callerPc' = "returned"
              /\ connectReturn' = Return(None, NewError("exec URL contains environment variables"))
         ELSE IF Cardinality(url.Parameters) > 0
         THEN /\ callerPc' = "returned"
              /\ connectReturn' = Return(None, NewError("exec URL contains internal parameters"))
         ELSE /\ callerPc' = "transport"
              /\ UNCHANGED connectReturn
    /\ UNCHANGED <<url, ctxDone, workerPc, transport, dialed, result,
                   streamState, streamOwner, offered, received>>

\* exec.NewTransport: it builds the transport and never fails.
NewTransport(command, prompter) ==
    [transport |-> [command |-> command, prompter |-> prompter], error |-> None]

\* Create an exec-based agent transport, then the results channel.
CreateTransport ==
    /\ callerPc = "transport"
    /\ LET made == NewTransport(url.Host, Prompter)
       IN  IF made.error /= None
             THEN /\ callerPc' = "returned"
                  /\ connectReturn' = Return(None, Wrap("unable to create exec transport", made.error))
                  /\ UNCHANGED transport
             ELSE /\ callerPc' = "spawn"
                  /\ transport' = made.transport
                  /\ UNCHANGED connectReturn
    /\ UNCHANGED <<url, ctxDone, workerPc, dialed, result,
                   streamState, streamOwner, offered, received>>

\* go func() { ... }(): start the dialing goroutine.
SpawnDial ==
    /\ callerPc = "spawn"
    /\ callerPc' = "select"
    /\ workerPc' = "dial"
    /\ UNCHANGED <<url, ctxDone, transport, dialed, result,
                   streamState, streamOwner, offered, received, connectReturn>>

\* agent.Dial returns in the worker, which then reaches its select. (A dial
\* that never returns is the worker staying at "dial".)
DialReturns ==
    /\ workerPc = "dial"
    /\ \E outcome \in DialOutcomes :
          /\ dialed' = outcome
          /\ IF outcome.stream /= Nil
               THEN streamState' = "open" /\ streamOwner' = "worker"
               ELSE UNCHANGED <<streamState, streamOwner>>
    /\ workerPc' = "select"
    /\ offered' = offered + 1
    /\ UNCHANGED <<url, ctxDone, callerPc, transport, result, received,
                   connectReturn>>

\* DeliverResult as if results had a buffer: the send completes with no
\* receiver, and the caller is left where it was.
DeliverResultBuffered ==
    /\ workerPc = "select"
    /\ workerPc' = "sent"
    /\ UNCHANGED <<url, ctxDone, callerPc, transport, dialed, result, streamState,
                   streamOwner, offered, received, connectReturn>>

\* The worker's case results <- dialResult{stream, err} together with the
\* caller's case result := <-results: results is unbuffered, so the send
\* completes exactly when the caller receives.
DeliverResult ==
    /\ workerPc = "select"
    /\ callerPc = "select"
    /\ workerPc' = "sent"
    /\ callerPc' = "received"
    /\ result' = dialed
    /\ received' = received + 1
    /\ streamOwner' = IF dialed.stream /= Nil THEN "caller" ELSE streamOwner
    /\ UNCHANGED <<url, ctxDone, transport, dialed, streamState, offered,
                   connectReturn>>

\* WorkerCancelled without the stream.Close() of its cancellation branch.
WorkerCancelledNoClose ==
    /\ workerPc = "select"
    /\ ctxDone
    /\ workerPc' = "cancelled"
    /\ UNCHANGED <<url, ctxDone, callerPc, transport, dialed, result, streamState,
                   streamOwner, offered, received, connectReturn>>

\* The worker with a plain send in place of its select: it has no
\* cancellation branch to take.
WorkerSendsOnly ==
    /\ workerPc = "select"
    /\ FALSE
    /\ UNCHANGED connectVars

\* The worker's case <-ctx.Done(): close the stream, if there is one.
WorkerCancelled ==
    /\ workerPc = "select"
    /\ ctxDone
    /\ workerPc' = "cancelled"
    /\ streamState' = IF dialed.stream /= Nil THEN "closed" ELSE streamState
    /\ UNCHANGED <<url, ctxDone, callerPc, transport, dialed, result,
                   streamOwner, offered, received, connectReturn>>

\* ConnectCancelled taken only once the worker has left agent.Dial.
ConnectCancelledAfterDial ==
    /\ callerPc = "select"
    /\ ctxDone
    /\ workerPc /= "dial"
    /\ callerPc' = "returned"
    /\ connectReturn' = Return(None, NewError("connect operation cancelled"))
    /\ UNCHANGED <<url, ctxDone, workerPc, transport, dialed, result,
                   streamState, streamOwner, offered, received>>

\* ConnectCancelled as a timeout of Connect's own: the caller gives up with
\* no cancellation of the context.
ConnectTimesOut ==
    /\ callerPc = "select"
    /\ callerPc' = "returned"
    /\ connectReturn' = Return(None, NewError("connect operation cancelled"))
    /\ UNCHANGED <<url, ctxDone, workerPc, transport, dialed, result,
                   streamState, streamOwner, offered, received>>

\* The caller's case <-ctx.Done().
ConnectCancelled ==
    /\ callerPc = "select"
    /\ ctxDone
    /\ callerPc' = "returned"
    /\ connectReturn' = Return(None, NewError("connect operation cancelled"))
    /\ UNCHANGED <<url, ctxDone, workerPc, transport, dialed, result,
                   streamState, streamOwner, offered, received>>

\* HandleResult with a second look at the context after the receive.
HandleResultChecksContext ==
    /\ callerPc = "received"
    /\ callerPc' = "returned"
    /\ IF ctxDone
         THEN connectReturn' = Return(None, NewError("connect operation cancelled"))
         ELSE IF result.error /= None
         THEN connectReturn' = Return(None, Wrap("unable to dial agent endpoint", result.error))
         ELSE \E made \in NewEndpointOutcomes(result.stream, url.Path) :
                 connectReturn' = Return(made.endpoint, made.error)
    /\ UNCHANGED <<url, ctxDone, workerPc, transport, dialed, result,
                   streamState, streamOwner, offered, received>>

\* HandleResult without the check of result.error.
HandleResultIgnoresError ==
    /\ callerPc = "received"
    /\ callerPc' = "returned"
    /\ \E made \in NewEndpointOutcomes(result.stream, url.Path) :
          connectReturn' = Return(made.endpoint, made.error)
    /\ UNCHANGED <<url, ctxDone, workerPc, transport, dialed, result,
                   streamState, streamOwner, offered, received>>

\* After the receive: return the wrapped dial error, or create the endpoint
\* client over the stream and return what remote.NewEndpoint returns.
HandleResult ==
    /\ callerPc = "received"
    /\ callerPc' = "returned"
    /\ IF result.error /= None
         THEN connectReturn' = Return(None, Wrap("unable to dial agent endpoint", result.error))
         ELSE \E made \in NewEndpointOutcomes(result.stream, url.Path) :
                 connectReturn' = Return(made.endpoint, made.error)
    /\ UNCHANGED <<url, ctxDone, workerPc, transport, dialed, result,
                   streamState, streamOwner, offered, received>>

-----------------------------------------------------------------------------
(* parseExec *)

\* The runes a URL is made of here: a letter, the separator, the two quotes.
Colon == ":"
DoubleQuote == "\""
SingleQuote == "'"
Runes == {"a", Colon, DoubleQuote, SingleQuote}

RECURSIVE StringsOfLength(_)
StringsOfLength(n) ==
    IF n = 0 THEN {<<>>}
    ELSE {Append(head, r) : head \in StringsOfLength(n - 1), r \in Runes}

\* The texts that may follow the "exec:" prefix.
RawStrings == UNION {StringsOfLength(n) : n \in 0 .. MaxLen}

\* The closure with a closing test that takes either quote character.
ClosureAnyQuoteCloses(q, mark, r) ==
    LET closes == q /\ r \in {DoubleQuote, SingleQuote}
        opens == ~closes /\ ~q /\ r \in {DoubleQuote, SingleQuote}
        q2 == IF closes THEN FALSE ELSE IF opens THEN TRUE ELSE q
    IN  [quoted |-> q2,
         quoteMark |-> IF opens THEN r ELSE mark,
         ret |-> ~q2 /\ r = Colon]

\* The closure handed to strings.FieldsFunc, called on rune r with the
\* captured variables at (q, mark): their new values and what it returns.
Closure(q, mark, r) ==
    LET closes == q /\ r = mark
        opens == ~closes /\ ~q /\ r \in {DoubleQuote, SingleQuote}
        q2 == IF closes THEN FALSE ELSE IF opens THEN TRUE ELSE q
    IN  [quoted |-> q2,
         quoteMark |-> IF opens THEN r ELSE mark,
         ret |-> ~q2 /\ r = Colon]

\* command with its first and last rune removed (command[1:len(command)-1]).
Inner(command) == SubSeq(command, 2, Len(command) - 1)

\* StripQuotes that knows the double quote only.
StripQuotesDoubleOnly(command) ==
    IF /\ Len(command) >= 2
       /\ command[1] = DoubleQuote /\ command[Len(command)] = DoubleQuote
      THEN Inner(command)
      ELSE command

\* Strip quotes off command.
StripQuotes(command) ==
    IF /\ Len(command) >= 2
       /\ \/ command[1] = SingleQuote /\ command[Len(command)] = SingleQuote
          \/ command[1] = DoubleQuote /\ command[Len(command)] = DoubleQuote
      THEN Inner(command)
      ELSE command

\* The *URL parseExec builds.
ExecURL(k, command, path) ==
    [Kind |-> k, Protocol |-> "Exec", Host |-> command, Path |-> path,
     Environment |-> {}, Parameters |-> {}]

ParseResult(u, err) == [url |-> u, error |-> err]

ConnectIdle ==
    /\ url = None
    /\ ctxDone = FALSE
    /\ callerPc = "idle"
    /\ workerPc = "idle"
    /\ transport = None
    /\ dialed = None
    /\ result = None
    /\ streamState = "none"
    /\ streamOwner = "none"
    /\ offered = 0
    /\ received = 0
    /\ connectReturn = NotReturned

\* parseExec is entered with the prefix stripped and the closure's variables
\* at their initial values.
InitParse ==
    /\ raw \in RawStrings
    /\ kind \in Kinds
    /\ pos = 0
    /\ quoted = FALSE
    /\ quoteMark = DoubleQuote
    /\ start = 0
    /\ split = <<>>
    /\ seps = {}
    /\ parsePc = "scan"
    /\ parsed = None

\* ScanRune keeping the empty fields, as strings.Split would: every
\* accepted rune ends a field, an empty one if none is open.
ScanRuneKeepsEmpty ==
    /\ parsePc = "scan"
    /\ pos < Len(raw)
    /\ LET c == Closure(quoted, quoteMark, raw[pos + 1])
       IN  /\ quoted' = c.quoted
           /\ quoteMark' = c.quoteMark
           /\ IF c.ret
                THEN /\ seps' = seps \cup {pos + 1}
                     /\ split' = Append(split, IF start > 0
                                                 THEN SubSeq(raw, start, pos)
                                                 ELSE <<>>)
                     /\ start' = 0
                ELSE /\ seps' = seps
                     /\ split' = split
                     /\ start' = IF start = 0 THEN pos + 1 ELSE start
    /\ pos' = pos + 1
    /\ UNCHANGED <<raw, kind, parsePc, parsed>>

\* One turn of FieldsFunc's loop: the closure is called on the next rune; a
\* rune it accepts ends the open field, any other rune opens a field if none
\* is open.
ScanRune ==
    /\ parsePc = "scan"
    /\ pos < Len(raw)
    /\ LET c == Closure(quoted, quoteMark, raw[pos + 1])
       IN  /\ quoted' = c.quoted
           /\ quoteMark' = c.quoteMark
           /\ IF c.ret
                THEN /\ seps' = seps \cup {pos + 1}
                     /\ split' = IF start > 0
                                   THEN Append(split, SubSeq(raw, start, pos))
                                   ELSE split
                     /\ start' = 0
                ELSE /\ seps' = seps
                     /\ split' = split
                     /\ start' = IF start = 0 THEN pos + 1 ELSE start
    /\ pos' = pos + 1
    /\ UNCHANGED <<raw, kind, parsePc, parsed>>

\* FieldsFunc after its loop: the field still open is the last one.
EndFields ==
    /\ parsePc = "scan"
    /\ pos = Len(raw)
    /\ split' = IF start > 0 THEN Append(split, SubSeq(raw, start, Len(raw)))
                ELSE split
    /\ start' = 0
    /\ parsePc' = "fields"
    /\ UNCHANGED <<raw, kind, pos, quoted, quoteMark, seps, parsed>>

\* BuildURL with the test for too many fields off by one.
BuildURLTooManyAtTwo ==
    /\ parsePc = "fields"
    /\ parsePc' = "done"
    /\ parsed' =
         IF Len(split) = 0
           THEN ParseResult(None, NewError("no command or path specified"))
         ELSE IF Len(split) >= 2
           THEN ParseResult(None, NewError("too many separators"))
         ELSE ParseResult(ExecURL(kind, StripQuotes(split[1]),
                                  IF Len(split) = 2 THEN split[2] ELSE <<>>),
                          None)
    /\ UNCHANGED <<raw, kind, pos, quoted, quoteMark, start, split, seps>>

\* BuildURL with the quotes stripped off the path as well.
BuildURLStripsPath ==
    /\ parsePc = "fields"
    /\ parsePc' = "done"
    /\ parsed' =
         IF Len(split) = 0
           THEN ParseResult(None, NewError("no command or path specified"))
         ELSE IF Len(split) > 2
           THEN ParseResult(None, NewError("too many separators"))
         ELSE ParseResult(ExecURL(kind, StripQuotes(split[1]),
                                  IF Len(split) = 2 THEN StripQuotes(split[2]) ELSE <<>>),
                          None)
    /\ UNCHANGED <<raw, kind, pos, quoted, quoteMark, start, split, seps>>

\* The rest of parseExec: the decision on the number of fields, the command
\* with its quotes stripped, the path, and the URL with the command as host.
BuildURL ==
    /\ parsePc = "fields"
    /\ parsePc' = "done"
    /\ parsed' =
         IF Len(split) = 0
           THEN ParseResult(None, NewError("no command or path specified"))
         ELSE IF Len(split) > 2
           THEN ParseResult(None, NewError("too many separators"))
         ELSE ParseResult(ExecURL(kind, StripQuotes(split[1]),
                                  IF Len(split) = 2 THEN split[2] ELSE <<>>),
                          None)
    /\ UNCHANGED <<raw, kind, pos, quoted, quoteMark, start, split, seps>>

\* parseExec is not running.
ParseIdle ==
    /\ raw = <<>>
    /\ kind = "Synchronization"
    /\ pos = 0
    /\ quoted = FALSE
    /\ quoteMark = DoubleQuote
    /\ start = 0
    /\ split = <<>>
    /\ seps = {}
    /\ parsePc = "idle"
    /\ parsed = None

-----------------------------------------------------------------------------
(* execTransport.Command *)

\* Texts are sequences of one-character strings.
Space == " "
Kubectl == <<"/", "k", "u", "b", "e", "c", "t", "l">>
KubectlExe == <<"\\", "k", "u", "b", "e", "c", "t", "l", ".", "e", "x", "e">>

\* agent.BaseName
BaseName == <<"m", "u", "t", "a", "g", "e", "n", "-", "a", "g", "e", "n", "t">>

\* The pieces stored commands are put together from: the two wrapper names
\* followed by a space, a wrapper name alone, a space and a letter.
Pieces == {Kubectl \o <<Space>>, KubectlExe \o <<Space>>, Kubectl, <<Space>>, <<"x">>}

RECURSIVE TextsOfPieces(_)
TextsOfPieces(n) ==
    IF n = 0 THEN {<<>>}
    ELSE {head \o piece : head \in TextsOfPieces(n - 1), piece \in Pieces}

\* The commands a transport may have been built with.
StoredCommands == UNION {TextsOfPieces(n) : n \in 0 .. MaxPieces}

\* The strings Command is called with: two that hold the sentinel and one
\* that does not.
CommandArguments ==
    { BaseName,
      Kubectl \o <<Space>> \o BaseName \o <<Space, "x">>,
      <<"x", Space, "x">> }

\* strings.Contains(s, sub)
Contains(s, sub) ==
    \E i \in 1 .. (Len(s) - Len(sub) + 1) : SubSeq(s, i, i + Len(sub) - 1) = sub

\* strings.Index(s, sub), counted from 1: the first place sub starts at in s,
\* 0 if there is none (Go counts from 0 and gives -1).
Index(s, sub) ==
    LET places == {i \in 1 .. (Len(s) - Len(sub) + 1) :
                      SubSeq(s, i, i + Len(sub) - 1) = sub}
    IN  IF places = {} THEN 0
        ELSE CHOOSE i \in places : \A j \in places : i <= j

\* strings.Split(s, " "): the texts between the spaces, empty ones included.
RECURSIVE Split(_)
Split(s) ==
    LET i == Index(s, <<Space>>)
    IN  IF i = 0 THEN <<s>>
        ELSE <<SubSeq(s, 1, i - 1)>> \o Split(SubSeq(s, i + 1, Len(s)))

\* The *osExec.Cmd Command returns: osExec.Command(name, args...), run
\* detached (transport.ProcessAttributes()), with a copy of os.Environ().
ProcessDescriptor(name, args) ==
    [name |-> name, args |-> args, detached |-> TRUE, env |-> "os.Environ()"]

CommandResult(cmd, err) == [cmd |-> cmd, error |-> err]

\* The marker that ends the wrapper's path in the stored command.
FirstSplitIndicator(os) ==
    IF os = "windows" THEN KubectlExe \o <<Space>> ELSE Kubectl \o <<Space>>

\* SplitAtIndicator with the marker's space left on the name.
SplitAtIndicatorKeepsSpace(command, indicator, index) ==
    <<SubSeq(command, 1, index + Len(indicator) - 1)>>
      \o Split(SubSeq(command, index + Len(indicator), Len(command)))

\* SplitAtIndicator at the last place of the marker in place of the first.
SplitAtIndicatorLast(command, indicator, index) ==
    LET places == {i \in index .. Len(command) - Len(indicator) + 1 :
                      SubSeq(command, i, i + Len(indicator) - 1) = indicator}
        last == CHOOSE i \in places : \A j \in places : j <= i
    IN  <<SubSeq(command, 1, last + Len(indicator) - 2)>>
          \o Split(SubSeq(command, last + Len(indicator), Len(command)))

\* The name and the arguments the first copy of Command takes from a stored
\* command that holds the marker at index (from 1).
SplitAtIndicator(command, indicator, index) ==
    <<SubSeq(command, 1, index + Len(indicator) - 2)>>
      \o Split(SubSeq(command, index + Len(indicator), Len(command)))

\* Command that keeps the string it was given when the sentinel is found.
CommandKeepsArgument(transport_, command, os) ==
    IF ~Contains(command, BaseName)
      THEN CommandResult(None, NewError("transport does not support this command"))
      ELSE LET stored == command
               indicator == FirstSplitIndicator(os)
               index == Index(stored, indicator)
           IN  IF index = 0
                 THEN CommandResult(None, NewError("unable to identify kubectl invocation"))
                 ELSE LET parts == SplitAtIndicator(stored, indicator, index)
                      IN  CommandResult(ProcessDescriptor(Head(parts), Tail(parts)), None)

\* Command of the first copy of the file (transport.go:39-98).
Command(transport_, command, os) ==
    IF ~Contains(command, BaseName)
      THEN CommandResult(None, NewError("transport does not support this command"))
      ELSE LET stored == transport_.command
               indicator == FirstSplitIndicator(os)
               index == Index(stored, indicator)
           IN  IF index = 0
                 THEN CommandResult(None, NewError("unable to identify kubectl invocation"))
                 ELSE LET parts == SplitAtIndicator(stored, indicator, index)
                      IN  CommandResult(ProcessDescriptor(Head(parts), Tail(parts)), None)

\* Command of the second copy of the file (transport.go:166-202).
Command2(transport_, command) ==
    LET used == IF Contains(command, BaseName) THEN transport_.command ELSE command
        parts == Split(used)
    IN  CommandResult(ProcessDescriptor(Head(parts), Tail(parts)), None)

CallRecord(copy, command, ret) == [copy |-> copy, command |-> command, ret |-> ret]

\* A transport built by NewTransport, on either build, before any call.
InitCommand ==
    /\ t \in {NewTransport(c, Prompter).transport : c \in StoredCommands}
    /\ goos \in {"linux", "windows"}
    /\ calls = {}

\* A call of the first copy's Command.
CallCommand ==
    /\ \E command \in CommandArguments :
          calls' = calls \cup {CallRecord(1, command, Command(t, command, goos))}
    /\ UNCHANGED <<t, goos>>

\* A call of the second copy's Command.
CallCommand2 ==
    /\ \E command \in CommandArguments :
          calls' = calls \cup {CallRecord(2, command, Command2(t, command))}
    /\ UNCHANGED <<t, goos>>

\* No transport is in use.
CommandIdle ==
    /\ t = None
    /\ goos = "linux"
    /\ calls = {}

-----------------------------------------------------------------------------
(* execTransport.ClassifyError and execTransport.Copy *)

\* The exit codes by which pkg/process recognises a POSIX shell's failures.
POSIXShellInvalidCommandExitCode == 126
POSIXShellCommandNotFoundExitCode == 127

\* The fragments by which pkg/process recognises cmd.exe's failures.
WindowsInvalidCommandFragment ==
    "is not recognized as an internal or external command"
WindowsCommandNotFoundFragment == "The system cannot find the path specified"

\* The exit states of a failed attempt's process.
ProcessStates ==
    {[exitCode |-> c] : c \in {0, 1, POSIXShellInvalidCommandExitCode,
                                POSIXShellCommandNotFoundExitCode}}

\* What an error output is put together from.
OutputFragments ==
    {WindowsInvalidCommandFragment, WindowsCommandNotFoundFragment, "other"}

\* The error outputs: up to MaxFragments fragments, one after the other.
ErrorOutputs ==
    UNION {[1 .. n -> OutputFragments] : n \in 0 .. MaxFragments}

\* A failed attempt: the process state and the error output it left.
Failures == [processState : ProcessStates, errorOutput : ErrorOutputs]

IsPOSIXShellInvalidCommand(processState) ==
    processState.exitCode = POSIXShellInvalidCommandExitCode

IsPOSIXShellCommandNotFound(processState) ==
    processState.exitCode = POSIXShellCommandNotFoundExitCode

OutputIsWindowsInvalidCommand(errorOutput) ==
    \E i \in 1 .. Len(errorOutput) : errorOutput[i] = WindowsInvalidCommandFragment

OutputIsWindowsCommandNotFound(errorOutput) ==
    \E i \in 1 .. Len(errorOutput) : errorOutput[i] = WindowsCommandNotFoundFragment

\* The three results of ClassifyError.
Classification(tryInstall, switchHypothesis, err) ==
    [tryInstall |-> tryInstall, switchHypothesis |-> switchHypothesis, error |-> err]

UnknownErrorCondition == NewError("unknown error condition encountered")

\* ClassifyError with the Windows patterns looked at before the POSIX ones.
ClassifyErrorWindowsFirst(transport_, processState, errorOutput) ==
    IF OutputIsWindowsInvalidCommand(errorOutput) THEN
        Classification(FALSE, TRUE, None)
    ELSE IF OutputIsWindowsCommandNotFound(errorOutput) THEN
        Classification(FALSE, TRUE, None)
    ELSE IF IsPOSIXShellInvalidCommand(processState) THEN
        Classification(FALSE, FALSE, None)
    ELSE IF IsPOSIXShellCommandNotFound(processState) THEN
        Classification(FALSE, FALSE, None)
    ELSE
        Classification(FALSE, FALSE, UnknownErrorCondition)

\* ClassifyError asking for an installation when the shell did not find the
\* command.
ClassifyErrorInstalls(transport_, processState, errorOutput) ==
    IF IsPOSIXShellInvalidCommand(processState) THEN
        Classification(FALSE, FALSE, None)
    ELSE IF IsPOSIXShellCommandNotFound(processState) THEN
        Classification(TRUE, FALSE, None)
    ELSE IF OutputIsWindowsInvalidCommand(errorOutput) THEN
        Classification(FALSE, TRUE, None)
    ELSE IF OutputIsWindowsCommandNotFound(errorOutput) THEN
        Classification(TRUE, TRUE, None)
    ELSE
        Classification(FALSE, FALSE, UnknownErrorCondition)

\* ClassifyError asking for a switch of hypothesis together with the unknown
\* error.
ClassifyErrorSwitchesOnUnknown(transport_, processState, errorOutput) ==
    IF IsPOSIXShellInvalidCommand(processState) THEN
        Classification(FALSE, FALSE, None)
    ELSE IF IsPOSIXShellCommandNotFound(processState) THEN
        Classification(FALSE, FALSE, None)
    ELSE IF OutputIsWindowsInvalidCommand(errorOutput) THEN
        Classification(FALSE, TRUE, None)
    ELSE IF OutputIsWindowsCommandNotFound(errorOutput) THEN
        Classification(FALSE, TRUE, None)
    ELSE
        Classification(FALSE, TRUE, UnknownErrorCondition)

\* func (t *execTransport) ClassifyError(processState, errorOutput)
ClassifyError(transport_, processState, errorOutput) ==
    IF IsPOSIXShellInvalidCommand(processState) THEN
        Classification(FALSE, FALSE, None)
    ELSE IF IsPOSIXShellCommandNotFound(processState) THEN
        Classification(FALSE, FALSE, None)
    ELSE IF OutputIsWindowsInvalidCommand(errorOutput) THEN
        Classification(FALSE, TRUE, None)
    ELSE IF OutputIsWindowsCommandNotFound(errorOutput) THEN
        Classification(FALSE, TRUE, None)
    ELSE
        Classification(FALSE, FALSE, UnknownErrorCondition)

\* The files on the remote: the agent is there already, or it is not.
AgentName == "mutagen-agent"
RemoteStates == {{}, {AgentName}}
LocalPaths == {"/tmp/mutagen-agent"}
RemoteNames == {AgentName, "other"}

\* What a call of Copy leaves: the error it returns, the receiver and the
\* files on the remote.
CopyResult(err, transport_, remote_) ==
    [error |-> err, transport |-> transport_, remote |-> remote_]

\* Copy putting the file on the remote.
CopyUploads(transport_, remote_, localPath, remoteName) ==
    CopyResult(None, transport_, remote_ \cup {remoteName})

\* func (t *execTransport) Copy(localPath, remoteName string) error
Copy(transport_, remote_, localPath, remoteName) ==
    CopyResult(None, transport_, remote_)

\* The transports the dialer is given.
DialTransports ==
    {NewTransport(c, Prompter).transport :
        c \in {Kubectl \o <<Space, "x">>, <<"x">>}}

-----------------------------------------------------------------------------
(* The dialer's hypothesis/retry loop (agent.Dial), from its contract with *)
(* ClassifyError                                                           *)

POSIXShell == "POSIXShell"
WindowsCmd == "WindowsCmd"
Flip(h) == IF h = POSIXShell THEN WindowsCmd ELSE POSIXShell

\* What the loop returns: a stream and no error, or no stream and an error.
DialStream == [stream |-> "stream", error |-> None]
DialFailure(err) == [stream |-> Nil, error |-> err]
\* The error of an attempt that failed in a recognised way.
AttemptFailed == NewError("unable to connect to agent")

\* How the loop goes on after a classification.
Reacting(next, h, install, ret) ==
    [next |-> next, hypothesis |-> h, install |-> install, ret |-> ret]

\* The loop retrying, under the other hypothesis, on an unrecognised error.
ReactionRetriesUnknown(c, h, n) ==
    IF (c.error /= None \/ c.switchHypothesis \/ c.tryInstall) /\ n < MaxAttempts THEN
        Reacting("attempt", Flip(h), c.tryInstall, None)
    ELSE
        Reacting("done", h, FALSE, DialFailure(AttemptFailed))

\* The loop retrying without a largest number of attempts.
ReactionUnbounded(c, h, n) ==
    IF c.error /= None THEN
        Reacting("done", h, FALSE, DialFailure(c.error))
    ELSE IF c.switchHypothesis \/ c.tryInstall THEN
        Reacting("attempt", IF c.switchHypothesis THEN Flip(h) ELSE h,
                 c.tryInstall, None)
    ELSE
        Reacting("done", h, FALSE, DialFailure(AttemptFailed))

\* The loop changing its hypothesis as it gives up.
ReactionFlipsOnGivingUp(c, h, n) ==
    IF c.error /= None THEN
        Reacting("done", h, FALSE, DialFailure(c.error))
    ELSE IF (c.switchHypothesis \/ c.tryInstall) /\ n < MaxAttempts THEN
        Reacting("attempt", IF c.switchHypothesis THEN Flip(h) ELSE h,
                 c.tryInstall, None)
    ELSE
        Reacting("done", Flip(h), FALSE, DialFailure(AttemptFailed))

\* The reaction to the classification c of a failed attempt, under the
\* hypothesis h, after n attempts: abort on an unrecognised error; flip the
\* hypothesis and retry if asked to switch, install and retry if asked to
\* install, as long as fewer than MaxAttempts attempts were made; give up
\* otherwise.
Reaction(c, h, n) ==
    IF c.error /= None THEN
        Reacting("done", h, FALSE, DialFailure(c.error))
    ELSE IF (c.switchHypothesis \/ c.tryInstall) /\ n < MaxAttempts THEN
        Reacting("attempt", IF c.switchHypothesis THEN Flip(h) ELSE h,
                 c.tryInstall, None)
    ELSE
        Reacting("done", h, FALSE, DialFailure(AttemptFailed))

\* The remote installation: the agent binary is copied over the transport.
Install(transport_, remote_) ==
    Copy(transport_, remote_, "/tmp/mutagen-agent", AgentName)

InitDial ==
    /\ t \in DialTransports
    /\ goos = "linux"
    /\ calls = {}
    /\ hypothesis = POSIXShell
    /\ attempts = 0
    /\ loopPc = "attempt"
    /\ failure = None
    /\ classification = None
    /\ dialReturn = None
    /\ installs = 0
    /\ remote \in RemoteStates
    /\ copyReturns = <<>>

\* One attempt to start the agent and shake hands: a stream, or a failure
\* that leaves a process state and an error output.
Attempt ==
    /\ loopPc = "attempt"
    /\ attempts <= MaxAttempts
    /\ attempts' = attempts + 1
    /\ classification' = None
    /\ \/ /\ loopPc' = "done"
          /\ dialReturn' = DialStream
          /\ failure' = None
       \/ /\ loopPc' = "failed"
          /\ failure' \in Failures
          /\ UNCHANGED dialReturn
    /\ UNCHANGED <<t, goos, calls, hypothesis, installs, remote, copyReturns>>

\* The failed attempt is classified and the loop reacts.
React ==
    /\ loopPc = "failed"
    /\ LET c == ClassifyError(t, failure.processState, failure.errorOutput)
           r == Reaction(c, hypothesis, attempts)
           i == Install(t, remote)
       IN  /\ classification' = c
           /\ hypothesis' = r.hypothesis
           /\ loopPc' = r.next
           /\ dialReturn' = r.ret
           /\ IF r.install
                 THEN /\ installs' = installs + 1
                      /\ t' = i.transport
                      /\ remote' = i.remote
                 ELSE UNCHANGED <<installs, t, remote>>
    /\ UNCHANGED <<goos, calls, attempts, failure, copyReturns>>

\* A call of Copy, by whoever holds the transport.
CallCopy ==
    /\ loopPc /= "idle"
    /\ Len(copyReturns) < MaxCopies
    /\ \E localPath \in LocalPaths, remoteName \in RemoteNames :
          LET r == Copy(t, remote, localPath, remoteName)
          IN  /\ copyReturns' = Append(copyReturns, r.error)
              /\ t' = r.transport
              /\ remote' = r.remote
    /\ UNCHANGED <<goos, calls, hypothesis, attempts, loopPc, failure,
                   classification, dialReturn, installs>>

\* A call of ClassifyError on its own, with a failure to classify.
InitClassify ==
    /\ t \in DialTransports
    /\ goos = "linux"
    /\ calls = {}
    /\ hypothesis = POSIXShell
    /\ attempts = 0
    /\ loopPc = "idle"
    /\ failure \in Failures
    /\ classification = None
    /\ dialReturn = None
    /\ installs = 0
    /\ remote = {}
    /\ copyReturns = <<>>

CallClassifyError ==
    /\ loopPc = "idle"
    /\ classification = None
    /\ classification' = ClassifyError(t, failure.processState, failure.errorOutput)
    /\ UNCHANGED <<t, goos, calls, hypothesis, attempts, loopPc, failure,
                   dialReturn, installs, remote, copyReturns>>

\* No dialing in progress.
DialIdle ==
    /\ hypothesis = POSIXShell
    /\ attempts = 0
    /\ loopPc = "idle"
    /\ failure = None
    /\ classification = None
    /\ dialReturn = None
    /\ installs = 0
    /\ remote = {}
    /\ copyReturns = <<>>

-----------------------------------------------------------------------------
(* ServeEndpoint (session/endpoint.go) *)

endpointAcceptBacklog == 100

endpointMethodScan == "endpoint.Scan"
endpointMethodTransmit == "endpoint.Transmit"
endpointMethodApply == "endpoint.Apply"
endpointMethodUpdate == "endpoint.Update"

\* The streams ServeEndpoint is called with.
ServeStreams == {"stream"}
\* The method names the other side calls, one per sub-stream it opens.
Requests == {endpointMethodScan, endpointMethodTransmit, endpointMethodApply,
             endpointMethodUpdate, "endpoint.Other"}
\* The errors with which accepting a sub-stream fails.
AcceptErrors == {NewError("session closed"), NewError("remote reset")}

\* muxado.Server(stream, &muxado.Config{AcceptBacklog: ...})
MuxadoServer(stream, backlog) ==
    [stream |-> stream, role |-> "Server", AcceptBacklog |-> backlog]

\* rpc.NewClient(multiplexer)
NewClient(mux) == [multiplexer |-> mux]

\* newEndpoint(client)
newEndpoint(c) == [client |-> c]

\* A method value: the method of an endpoint, bound to its receiver.
Handler(receiver, method) == [receiver |-> receiver, method |-> method]

\* The table with endpoint.Update bound to the handler apply.
HandlersUpdateApplies(e) ==
    (endpointMethodScan :> Handler(e, "scan"))
      @@ (endpointMethodTransmit :> Handler(e, "transmit"))
      @@ (endpointMethodApply :> Handler(e, "apply"))
      @@ (endpointMethodUpdate :> Handler(e, "apply"))

\* The map[string]rpc.Handler ServeEndpoint builds for the endpoint e.
Handlers(e) ==
    (endpointMethodScan :> Handler(e, "scan"))
      @@ (endpointMethodTransmit :> Handler(e, "transmit"))
      @@ (endpointMethodApply :> Handler(e, "apply"))
      @@ (endpointMethodUpdate :> Handler(e, "update"))

\* rpc.NewServer(handlers)
NewServer(handlers) == [handlers |-> handlers]

\* errors.Wrap(err, message) of github.com/pkg/errors: nil for a nil err.
ErrorsWrap(err, message) ==
    IF err = None THEN None ELSE [message |-> message, wraps |-> err]

\* What server.Serve returns once accepting a sub-stream has failed with err.
Serve(err) == err

\* ServeEndpoint returning what Serve returned as it is.
ServeEndpointReturnUnwrapped(serveErr) == serveErr

\* return errors.Wrap(server.Serve(multiplexer), "error serving RPC requests")
ServeEndpointReturn(serveErr) == ErrorsWrap(serveErr, "error serving RPC requests")

ServeRunning == [kind |-> "running"]
ServeReturned(err) == [kind |-> "return", error |-> err]

\* An accepted sub-stream: the method it asks for, and how it was answered.
SubStream(method, state, handler) ==
    [method |-> method, state |-> state, handler |-> handler]

InitServe ==
    /\ serveStream \in ServeStreams
    /\ multiplexer = None
    /\ client = None
    /\ theEndpoint = None
    /\ server = None
    /\ servePc = "start"
    /\ substreams = <<>>
    /\ acceptErr = None
    /\ serveReturn = ServeRunning

\* ServeEndpoint up to its last line: the multiplexer, the client, the
\* endpoint and the server with its handlers.
SetUp ==
    /\ servePc = "start"
    /\ LET m == MuxadoServer(serveStream, endpointAcceptBacklog)
           c == NewClient(m)
           e == newEndpoint(c)
       IN  /\ multiplexer' = m
           /\ client' = c
           /\ theEndpoint' = e
           /\ server' = NewServer(Handlers(e))
    /\ servePc' = "accept"
    /\ UNCHANGED <<serveStream, substreams, acceptErr, serveReturn>>

\* server.Serve accepts a sub-stream and hands it to a goroutine of its own.
Accept ==
    /\ servePc = "accept"
    /\ Len(substreams) < MaxAccepts
    /\ \E method \in Requests :
          substreams' = Append(substreams, SubStream(method, "open", None))
    /\ UNCHANGED <<serveStream, multiplexer, client, theEndpoint, server, servePc,
                   acceptErr, serveReturn>>

\* Accepting a sub-stream fails (the other side is gone).
AcceptFails ==
    /\ servePc = "accept"
    /\ acceptErr' \in AcceptErrors
    /\ servePc' = "failed"
    /\ UNCHANGED <<serveStream, multiplexer, client, theEndpoint, server,
                   substreams, serveReturn>>

\* server.Serve returns and ServeEndpoint returns its error, wrapped.
ServeReturns ==
    /\ servePc = "failed"
    /\ servePc' = "returned"
    /\ serveReturn' = ServeReturned(ServeEndpointReturn(Serve(acceptErr)))
    /\ UNCHANGED <<serveStream, multiplexer, client, theEndpoint, server,
                   substreams, acceptErr>>

\* The goroutine of a sub-stream looks the method up in the server's
\* handlers and calls the handler, or rejects the call.
Dispatch ==
    /\ \E i \in 1 .. Len(substreams) :
          /\ substreams[i].state = "open"
          /\ LET method == substreams[i].method
             IN  substreams' =
                   [substreams EXCEPT ![i] =
                      IF method \in DOMAIN server.handlers
                        THEN SubStream(method, "served", server.handlers[method])
                        ELSE SubStream(method, "rejected", None)]
    /\ UNCHANGED <<serveStream, multiplexer, client, theEndpoint, server, servePc,
                   acceptErr, serveReturn>>

\* ServeEndpoint is not running.
ServeIdle ==
    /\ serveStream = Nil
    /\ multiplexer = None
    /\ client = None
    /\ theEndpoint = None
    /\ server = None
    /\ servePc = "idle"
    /\ substreams = <<>>
    /\ acceptErr = None
    /\ serveReturn = ServeRunning

-----------------------------------------------------------------------------
(* compose.LoadProject and Project.Dispose (pkg/compose/project.go) *)

\* The name of the Mutagen service of a project.
MutagenServiceName == "mutagen"

\* The arguments of a command: up to MaxArguments service names.
ServiceNames == {"web", MutagenServiceName}
ArgumentLists == UNION {[1 .. n -> ServiceNames] : n \in 0 .. MaxArguments}

\* The file system: the paths that exist. A directory is <<name>>, a file in
\* it <<name, file>>.
TemporaryNames == {"io.mutagen.compose.1", "io.mutagen.compose.2"}
Directory(name) == <<name>>
StandardInputFile(name) == <<name, "standard-input.yaml">>

\* os.RemoveAll(path): the path and what it holds are gone.
RemoveAll(files, name) == {p \in files : p[1] /= name}

\* The ways the rest of LoadProject (after the temporary directory) ends,
\* with the line of the return: an error before anything is written, the
\* failure to create or to fill the file for the standard input, an error
\* later on, the panic on a URL that fails to reparse, and the success.
LoadOutcomes ==
    {[kind |-> "error", line |-> 130, message |-> "unable to load/compute environment"],
     [kind |-> "error", line |-> 183,
      message |-> "unable to create file to store standard input configuration"],
     [kind |-> "error", line |-> 188,
      message |-> "unable to copy standard input configuration"],
     [kind |-> "error", line |-> 271, message |-> "unable to load configuration file"],
     [kind |-> "panic", line |-> 386, message |-> "forwarding URL failed to reparse"],
     [kind |-> "success", line |-> 556, message |-> ""]}

\* Whether the file for the standard input exists when LoadProject ends at
\* the line: it is created at line 181.
WritesStandardInput(outcome, stdin) ==
    stdin /\ outcome.line >= 188

\* The outcomes that go with the files being, or not being, the standard
\* input.
PossibleOutcomes(stdin) ==
    {o \in LoadOutcomes : o.line \in {183, 188} => stdin}

\* The deferred function that never removes the directory.
DeferredKeeps(successful_, files, name) == files

\* The deferred function of LoadProject: if !successful, os.RemoveAll.
Deferred(successful_, files, name) ==
    IF ~successful_ THEN RemoveAll(files, name) ELSE files

\* What LoadProject returns.
LoadReturned(p, err) == [kind |-> "return", project |-> p, error |-> err]
LoadPanicked(message) == [kind |-> "panic", message |-> message]

\* The Project LoadProject returns (the fields used here).
Project(name) == [temporaryDirectory |-> name]

\* ioutil.TempDir fails, or makes a directory with a name not yet in use, and
\* the function for the clean-up is deferred.
CreateTemporaryDirectory ==
    /\ composePc = "load"
    /\ events' = Append(events, "load")
    /\ \/ /\ loadReturn' =
               LoadReturned(None,
                   Wrap("unable to create temporary directory for project resources",
                        NewError("TempDir failed")))
          /\ composePc' = "loaded"
          /\ UNCHANGED <<fs, temporaryDirectory>>
       \/ \E name \in TemporaryNames :
             /\ Directory(name) \notin fs
             /\ temporaryDirectory' = name
             /\ fs' = fs \cup {Directory(name)}
             /\ composePc' = "body"
             /\ UNCHANGED loadReturn
    /\ UNCHANGED <<composeCommand, arguments, successful, project, invoked,
                   invokeResult, daemonConnection, composeReturn>>

\* The rest of LoadProject, to its return (or panic), the deferred function
\* included.
LoadRest ==
    /\ composePc = "body"
    /\ \E stdin \in BOOLEAN :
       \E outcome \in PossibleOutcomes(stdin) :
          LET written == IF WritesStandardInput(outcome, stdin)
                           THEN fs \cup {StandardInputFile(temporaryDirectory)}
                           ELSE fs
              ok == outcome.kind = "success"
          IN  /\ successful' = ok
              /\ fs' = Deferred(ok, written, temporaryDirectory)
              /\ loadReturn' =
                   IF ok THEN LoadReturned(Project(temporaryDirectory), None)
                   ELSE IF outcome.kind = "panic" THEN LoadPanicked(outcome.message)
                   ELSE LoadReturned(None, NewError(outcome.message))
    /\ composePc' = "loaded"
    /\ UNCHANGED <<composeCommand, arguments, temporaryDirectory, project, invoked,
                   invokeResult, daemonConnection, events, composeReturn>>

\* func (p *Project) Dispose() error: os.RemoveAll(p.temporaryDirectory).
Dispose(files, p) == RemoveAll(files, p.temporaryDirectory)

-----------------------------------------------------------------------------
(* The compose commands stop and start (cmd/mutagen/compose) *)

\* What a call of the daemon, of a session manager or of Docker Compose
\* returns: nil or an error.
CallOutcomes == {None, NewError("call failed")}

ComposeRunning == [kind |-> "running"]
ComposeReturned(err) == [kind |-> "return", error |-> err]
ComposePanicked(message) == [kind |-> "panic", message |-> message]

\* The pass-through: invoke(topLevelFlags, command, arguments).
Invocation(command, args) == [command |-> command, arguments |-> args]

\* for _, argument := range arguments { if argument == MutagenServiceName ...
NamesMutagenService(args) == \E i \in 1 .. Len(args) : args[i] = MutagenServiceName

InitCompose ==
    /\ composeCommand \in {"stop", "start"}
    /\ arguments \in ArgumentLists
    /\ composePc = "check"
    /\ fs \in {{}, {Directory("io.mutagen.compose.1")}}
    /\ temporaryDirectory = Nil
    /\ successful = FALSE
    /\ project = None
    /\ loadReturn = None
    /\ invoked = None
    /\ invokeResult = None
    /\ daemonConnection = "none"
    /\ events = <<>>
    /\ composeReturn = ComposeRunning

\* stopMain: the Mutagen service may not be named.
StopCheck ==
    /\ composeCommand = "stop"
    /\ composePc = "check"
    /\ IF NamesMutagenService(arguments)
         THEN /\ composeReturn' = ComposeReturned(
                    NewError("the Mutagen service should not be controlled directly"))
              /\ composePc' = "done"
         ELSE /\ composePc' = "load"
              /\ UNCHANGED composeReturn
    /\ UNCHANGED <<composeCommand, arguments, fs, temporaryDirectory, successful,
                   project, loadReturn, invoked, invokeResult, daemonConnection, events>>

\* StopLoaded pausing the sessions whatever the arguments are.
StopLoadedPausesAlways ==
    /\ composeCommand = "stop"
    /\ composePc = "loaded"
    /\ IF loadReturn.kind = "panic"
         THEN /\ composeReturn' = ComposePanicked(loadReturn.message)
              /\ composePc' = "done"
              /\ UNCHANGED project
       ELSE IF loadReturn.error /= None
         THEN /\ composeReturn' =
                   ComposeReturned(Wrap("unable to load project", loadReturn.error))
              /\ composePc' = "done"
              /\ UNCHANGED project
         ELSE /\ project' = loadReturn.project
              /\ composePc' = "pause"
              /\ UNCHANGED composeReturn
    /\ UNCHANGED <<composeCommand, arguments, fs, temporaryDirectory, successful,
                   loadReturn, invoked, invokeResult, daemonConnection, events>>

\* stopMain after LoadProject: its error is returned wrapped; else Dispose is
\* deferred and the sessions are paused if no service is named.
StopLoaded ==
    /\ composeCommand = "stop"
    /\ composePc = "loaded"
    /\ IF loadReturn.kind = "panic"
         THEN /\ composeReturn' = ComposePanicked(loadReturn.message)
              /\ composePc' = "done"
              /\ UNCHANGED project
       ELSE IF loadReturn.error /= None
         THEN /\ composeReturn' =
                   ComposeReturned(Wrap("unable to load project", loadReturn.error))
              /\ composePc' = "done"
              /\ UNCHANGED project
         ELSE /\ project' = loadReturn.project
              /\ composePc' = IF Len(arguments) = 0 THEN "pause" ELSE "invoke"
              /\ UNCHANGED composeReturn
    /\ UNCHANGED <<composeCommand, arguments, fs, temporaryDirectory, successful,
                   loadReturn, invoked, invokeResult, daemonConnection, events>>

\* What pauseSessions or resumeSessions does, by the results of its three
\* calls: the calls made, in order, and the error returned.
SessionCalls(verb, noun, connect, forwarding, synchronization) ==
    IF connect /= None THEN
        [calls |-> <<"daemon connect">>,
         error |-> Wrap("unable to connect to Mutagen daemon", connect)]
    ELSE IF forwarding /= None THEN
        [calls |-> <<"daemon connect", verb \o " forwarding">>,
         error |-> Wrap("forwarding " \o noun \o " failed", forwarding)]
    ELSE IF synchronization /= None THEN
        [calls |-> <<"daemon connect", verb \o " forwarding", verb \o " synchronization">>,
         error |-> Wrap("synchronization " \o noun \o " failed", synchronization)]
    ELSE
        [calls |-> <<"daemon connect", verb \o " forwarding", verb \o " synchronization">>,
         error |-> None]

\* stopMain's call of pauseSessions: the daemon connection, the forwarding
\* sessions, the synchronization sessions; on an error stopMain returns it
\* wrapped (and the deferred Dispose runs).
PauseSessions ==
    /\ composeCommand = "stop"
    /\ composePc = "pause"
    /\ \E connect \in CallOutcomes, forwarding \in CallOutcomes,
          synchronization \in CallOutcomes :
          LET s == SessionCalls("pause", "pausing", connect, forwarding, synchronization)
          IN  /\ daemonConnection' = IF connect = None THEN "closed" ELSE "none"
              /\ IF s.error /= None
                   THEN /\ composeReturn' = ComposeReturned(
                              Wrap("unable to pause Mutagen sessions", s.error))
                        /\ events' = events \o s.calls \o <<"dispose">>
                        /\ fs' = Dispose(fs, project)
                        /\ composePc' = "done"
                   ELSE /\ events' = events \o s.calls
                        /\ composePc' = "invoke"
                        /\ UNCHANGED <<composeReturn, fs>>
    /\ UNCHANGED <<composeCommand, arguments, temporaryDirectory, successful,
                   project, loadReturn, invoked, invokeResult>>

\* stopMain's pass-through and return; the deferred Dispose runs.
StopInvoke ==
    /\ composeCommand = "stop"
    /\ composePc = "invoke"
    /\ invoked' = Invocation("stop", arguments)
    /\ \E r \in CallOutcomes :
          /\ invokeResult' = r
          /\ composeReturn' = ComposeReturned(r)
    /\ events' = events \o <<"invoke", "dispose">>
    /\ fs' = Dispose(fs, project)
    /\ composePc' = "done"
    /\ UNCHANGED <<composeCommand, arguments, temporaryDirectory, successful,
                   project, loadReturn, daemonConnection>>

\* startMain: the Mutagen service may not be named.
StartCheck ==
    /\ composeCommand = "start"
    /\ composePc = "check"
    /\ IF NamesMutagenService(arguments)
         THEN /\ composeReturn' = ComposeReturned(
                    NewError("the Mutagen service should not be controlled directly"))
              /\ composePc' = "done"
         ELSE /\ composePc' = "load"
              /\ UNCHANGED composeReturn
    /\ UNCHANGED <<composeCommand, arguments, fs, temporaryDirectory, successful,
                   project, loadReturn, invoked, invokeResult, daemonConnection, events>>

\* startMain after LoadProject: its error is returned wrapped; else Dispose
\* is deferred.
StartLoaded ==
    /\ composeCommand = "start"
    /\ composePc = "loaded"
    /\ IF loadReturn.kind = "panic"
         THEN /\ composeReturn' = ComposePanicked(loadReturn.message)
              /\ composePc' = "done"
              /\ UNCHANGED project
       ELSE IF loadReturn.error /= None
         THEN /\ composeReturn' =
                   ComposeReturned(Wrap("unable to load project", loadReturn.error))
              /\ composePc' = "done"
              /\ UNCHANGED project
         ELSE /\ project' = loadReturn.project
              /\ composePc' = "invoke"
              /\ UNCHANGED composeReturn
    /\ UNCHANGED <<composeCommand, arguments, fs, temporaryDirectory, successful,
                   loadReturn, invoked, invokeResult, daemonConnection, events>>

\* The arguments of start's pass-through: the Mutagen service is added to the
\* services named.
StartArguments(args) ==
    IF Len(args) > 0 THEN Append(args, MutagenServiceName) ELSE args

\* StartInvoke going on to resume the sessions whatever the pass-through
\* returned.
StartInvokeIgnoresError ==
    /\ composeCommand = "start"
    /\ composePc = "invoke"
    /\ invoked' = Invocation("start", StartArguments(arguments))
    /\ events' = events \o <<"invoke">>
    /\ \E r \in CallOutcomes : invokeResult' = r
    /\ composePc' = "resume"
    /\ UNCHANGED <<composeCommand, arguments, fs, temporaryDirectory, successful,
                   project, loadReturn, daemonConnection, composeReturn>>

\* startMain's pass-through; its error is returned as it is (and the
\* deferred Dispose runs).
StartInvoke ==
    /\ composeCommand = "start"
    /\ composePc = "invoke"
    /\ invoked' = Invocation("start", StartArguments(arguments))
    /\ \E r \in CallOutcomes :
          /\ invokeResult' = r
          /\ IF r /= None
               THEN /\ composeReturn' = ComposeReturned(r)
                    /\ events' = events \o <<"invoke", "dispose">>
                    /\ fs' = Dispose(fs, project)
                    /\ composePc' = "done"
               ELSE /\ events' = events \o <<"invoke">>
                    /\ composePc' = "resume"
                    /\ UNCHANGED <<composeReturn, fs>>
    /\ UNCHANGED <<composeCommand, arguments, temporaryDirectory, successful,
                   project, loadReturn, daemonConnection>>

\* startMain's call of resumeSessions and its return; the deferred Dispose
\* runs.
ResumeSessions ==
    /\ composeCommand = "start"
    /\ composePc = "resume"
    /\ \E connect \in CallOutcomes, forwarding \in CallOutcomes,
          synchronization \in CallOutcomes :
          LET s == SessionCalls("resume", "resumption", connect, forwarding, synchronization)
          IN  /\ daemonConnection' = IF connect = None THEN "closed" ELSE "none"
              /\ composeReturn' =
                   IF s.error /= None
                     THEN ComposeReturned(Wrap("unable to resume Mutagen sessions", s.error))
                     ELSE ComposeReturned(None)
              /\ events' = events \o s.calls \o <<"dispose">>
    /\ fs' = Dispose(fs, project)
    /\ composePc' = "done"
    /\ UNCHANGED <<composeCommand, arguments, temporaryDirectory, successful,
                   project, loadReturn, invoked, invokeResult>>

\* No compose command is running.
ComposeIdle ==
    /\ composeCommand = "none"
    /\ arguments = <<>>
    /\ composePc = "idle"
    /\ fs = {}
    /\ temporaryDirectory = Nil
    /\ successful = FALSE
    /\ project = None
    /\ loadReturn = None
    /\ invoked = None
    /\ invokeResult = None
    /\ daemonConnection = "none"
    /\ events = <<>>
    /\ composeReturn = ComposeRunning

-----------------------------------------------------------------------------
(* Specifications *)

Init == InitConnect /\ ParseIdle /\ CommandIdle /\ DialIdle /\ ServeIdle /\ ComposeIdle

Next ==
    \/ (Cancel /\ UNCHANGED <<parseVars, commandVars, dialVars, serveVars, composeVars>>)
    \/ (VerifyURL /\ UNCHANGED <<parseVars, commandVars, dialVars, serveVars, composeVars>>)
    \/ (ValidateURL /\ UNCHANGED <<parseVars, commandVars, dialVars, serveVars, composeVars>>)
    \/ (CreateTransport /\ UNCHANGED <<parseVars, commandVars, dialVars, serveVars, composeVars>>)
    \/ (SpawnDial /\ UNCHANGED <<parseVars, commandVars, dialVars, serveVars, composeVars>>)
    \/ (DialReturns /\ UNCHANGED <<parseVars, commandVars, dialVars, serveVars, composeVars>>)
    \/ (DeliverResult /\ UNCHANGED <<parseVars, commandVars, dialVars, serveVars, composeVars>>)
    \/ (WorkerCancelled /\ UNCHANGED <<parseVars, commandVars, dialVars, serveVars, composeVars>>)
    \/ (ConnectCancelled /\ UNCHANGED <<parseVars, commandVars, dialVars, serveVars, composeVars>>)
    \/ (HandleResult /\ UNCHANGED <<parseVars, commandVars, dialVars, serveVars, composeVars>>)

Spec == Init /\ [][Next]_vars

\* A goroutine blocked in a select with a case that is ready proceeds: the
\* worker's select is taken once one of its two cases can be.
SpecFair ==
    /\ Init
    /\ [][Next]_vars
    /\ WF_vars((DeliverResult \/ WorkerCancelled)
                  /\ UNCHANGED <<parseVars, commandVars, dialVars, serveVars, composeVars>>)

InitExec == ConnectIdle /\ InitParse /\ CommandIdle /\ DialIdle /\ ServeIdle /\ ComposeIdle

NextParse ==
    \/ (ScanRune /\ UNCHANGED <<connectVars, commandVars, dialVars, serveVars, composeVars>>)
    \/ (EndFields /\ UNCHANGED <<connectVars, commandVars, dialVars, serveVars, composeVars>>)
    \/ (BuildURL /\ UNCHANGED <<connectVars, commandVars, dialVars, serveVars, composeVars>>)

SpecParse == InitExec /\ [][NextParse]_vars

InitTransport == ConnectIdle /\ ParseIdle /\ InitCommand /\ DialIdle /\ ServeIdle /\ ComposeIdle

NextCommand ==
    \/ (CallCommand /\ UNCHANGED <<connectVars, parseVars, dialVars, serveVars, composeVars>>)
    \/ (CallCommand2 /\ UNCHANGED <<connectVars, parseVars, dialVars, serveVars, composeVars>>)

SpecCommand == InitTransport /\ [][NextCommand]_vars

InitClassifyError == ConnectIdle /\ ParseIdle /\ InitClassify /\ ServeIdle /\ ComposeIdle

NextClassify ==
    \/ (CallClassifyError /\ UNCHANGED <<connectVars, parseVars, serveVars, composeVars>>)

SpecClassify == InitClassifyError /\ [][NextClassify]_vars

InitLoop == ConnectIdle /\ ParseIdle /\ InitDial /\ ServeIdle /\ ComposeIdle

NextDial ==
    \/ (Attempt /\ UNCHANGED <<connectVars, parseVars, serveVars, composeVars>>)
    \/ (React /\ UNCHANGED <<connectVars, parseVars, serveVars, composeVars>>)
    \/ (CallCopy /\ UNCHANGED <<connectVars, parseVars, serveVars, composeVars>>)

SpecDial == InitLoop /\ [][NextDial]_vars

\* The loop is a sequential function: a step it can take, it takes.
SpecDialFair ==
    /\ InitLoop
    /\ [][NextDial]_vars
    /\ WF_vars(Attempt /\ UNCHANGED <<connectVars, parseVars, serveVars, composeVars>>)
    /\ WF_vars(React /\ UNCHANGED <<connectVars, parseVars, serveVars, composeVars>>)

InitServeEndpoint ==
    ConnectIdle /\ ParseIdle /\ CommandIdle /\ DialIdle /\ InitServe /\ ComposeIdle

NextServe ==
    \/ (SetUp /\ UNCHANGED <<connectVars, parseVars, commandVars, dialVars, composeVars>>)
    \/ (Accept /\ UNCHANGED <<connectVars, parseVars, commandVars, dialVars, composeVars>>)
    \/ (AcceptFails /\ UNCHANGED <<connectVars, parseVars, commandVars, dialVars, composeVars>>)
    \/ (ServeReturns /\ UNCHANGED <<connectVars, parseVars, commandVars, dialVars, composeVars>>)
    \/ (Dispatch /\ UNCHANGED <<connectVars, parseVars, commandVars, dialVars, composeVars>>)

SpecServe == InitServeEndpoint /\ [][NextServe]_vars

\* ServeEndpoint is a sequential function: a step of its own it can take, it
\* takes.
SpecServeFair ==
    /\ InitServeEndpoint
    /\ [][NextServe]_vars
    /\ WF_vars(SetUp /\ UNCHANGED <<connectVars, parseVars, commandVars, dialVars, composeVars>>)
    /\ WF_vars(ServeReturns
                 /\ UNCHANGED <<connectVars, parseVars, commandVars, dialVars, composeVars>>)

InitComposeCommand ==
    ConnectIdle /\ ParseIdle /\ CommandIdle /\ DialIdle /\ ServeIdle /\ InitCompose

NextCompose ==
    \/ (StopCheck /\ UNCHANGED <<connectVars, parseVars, commandVars, dialVars, serveVars>>)
    \/ (StartCheck /\ UNCHANGED <<connectVars, parseVars, commandVars, dialVars, serveVars>>)
    \/ (CreateTemporaryDirectory /\ UNCHANGED <<connectVars, parseVars, commandVars, dialVars, serveVars>>)
    \/ (LoadRest /\ UNCHANGED <<connectVars, parseVars, commandVars, dialVars, serveVars>>)
    \/ (StopLoaded /\ UNCHANGED <<connectVars, parseVars, commandVars, dialVars, serveVars>>)
    \/ (StartLoaded /\ UNCHANGED <<connectVars, parseVars, commandVars, dialVars, serveVars>>)
    \/ (PauseSessions /\ UNCHANGED <<connectVars, parseVars, commandVars, dialVars, serveVars>>)
    \/ (StopInvoke /\ UNCHANGED <<connectVars, parseVars, commandVars, dialVars, serveVars>>)
    \/ (StartInvoke /\ UNCHANGED <<connectVars, parseVars, commandVars, dialVars, serveVars>>)
    \/ (ResumeSessions /\ UNCHANGED <<connectVars, parseVars, commandVars, dialVars, serveVars>>)

SpecCompose == InitComposeCommand /\ [][NextCompose]_vars

-----------------------------------------------------------------------------
(* Properties of protocolHandler.Connect *)

CancelledError == NewError("connect operation cancelled")
ReturnedCancelled == connectReturn = Return(None, CancelledError)
CallerEnded == callerPc \in {"returned", "panicked"}
WorkerEnded == workerPc \in {"sent", "cancelled"}
\* Connect has ended and the worker is not at a step it can still take.
ConnectTerminal == CallerEnded /\ workerPc \in {"idle", "dial", "sent", "cancelled"}

\* C1: a stream agent.Dial returned is received by the caller over results
\* or closed by the worker. Once the worker has ended, its stream is with the
\* caller (the send completed) or closed (the cancellation branch); after a
\* cancelled Connect the stream is closed; a worker still at its select after
\* Connect has ended can take its cancellation branch; and in no terminal
\* state is a stream open in the hands of the worker.
C1_StreamReceivedOrClosed ==
    /\ (WorkerEnded /\ dialed.stream /= Nil) =>
          \/ workerPc = "sent" /\ result = dialed /\ streamOwner = "caller"
          \/ workerPc = "cancelled" /\ streamState = "closed"
    /\ (ReturnedCancelled /\ WorkerEnded /\ dialed.stream /= Nil) =>
          streamState = "closed"
    /\ (CallerEnded /\ workerPc = "select") => ENABLED WorkerCancelled
    /\ ConnectTerminal => ~(streamState = "open" /\ streamOwner /= "caller")

\* Connect returned the cancellation error and the dial then completed with
\* a stream, which the worker closed.
C1_Witness ==
    /\ ReturnedCancelled
    /\ workerPc = "cancelled"
    /\ dialed.stream /= Nil
    /\ streamState = "closed"

\* C2: once the context is cancelled and no result has been delivered,
\* Connect's return of the error "connect operation cancelled" is enabled,
\* wherever the worker is (still in agent.Dial or not), and taking it leaves
\* the worker where it is.
C2_CancelReturnEnabled ==
    (callerPc = "select" /\ ctxDone) =>
        ENABLED (ConnectCancelled /\ connectReturn' = Return(None, CancelledError)
                   /\ workerPc' = workerPc)

\* Connect has returned the cancellation error while agent.Dial is running.
C2_Witness == ReturnedCancelled /\ workerPc = "dial"

\* C3: at most one of {result delivered, cancellation observed} is acted on:
\* Connect having returned the cancellation error and the worker's send
\* having completed never hold together, and a completed send means the
\* caller received the result.
C3_DeliveredXorCancelled ==
    /\ ~(ReturnedCancelled /\ workerPc = "sent")
    /\ ReturnedCancelled => received = 0
    /\ workerPc = "sent" => (received = 1 /\ result = dialed)

\* Both sides took their cancellation branch although a result was on offer.
C3_Witness ==
    /\ ReturnedCancelled
    /\ workerPc = "cancelled"
    /\ ctxDone
    /\ offered = 1
    /\ received = 0
    /\ dialed.error /= None

\* C4 (as stated): once Connect and the worker of a started dial have both
\* ended, one result was offered and it was received once.
C4_ConsumedExactlyOnce ==
    (callerPc = "returned" /\ WorkerEnded) => (offered = 1 /\ received = 1)

\* C4 (amended): the worker offers at most one result, exactly one once
\* agent.Dial has returned; the result is received at most once: once when
\* the worker's send completes, never when the worker or the caller takes its
\* cancellation branch.
C4_ConsumedAtMostOnce ==
    /\ offered \in {0, 1}
    /\ received \in {0, 1}
    /\ (workerPc \in {"select", "sent", "cancelled"}) <=> (offered = 1)
    /\ (workerPc = "sent") <=> (received = 1)
    /\ (workerPc = "cancelled" \/ ReturnedCancelled) => received = 0

\* A result was offered and never received: both sides ended by cancellation.
C4_Witness ==
    /\ callerPc = "returned"
    /\ workerPc = "cancelled"
    /\ offered = 1
    /\ received = 0
    /\ dialed.stream /= Nil

\* C5: a received result that carries an error makes Connect return the error
\* "unable to dial agent endpoint" wrapping it, and no endpoint; the endpoint
\* client is built (remote.NewEndpoint is reached) only from a received
\* result whose error is nil, over that result's stream and the URL's path.
C5_DialErrorWrapped ==
    /\ (callerPc = "returned" /\ received = 1 /\ result.error /= None) =>
          connectReturn = Return(None, Wrap("unable to dial agent endpoint", result.error))
    /\ (callerPc = "returned" /\ received = 1 /\ result.error = None) =>
          connectReturn \in { Return(made.endpoint, made.error) :
                                made \in NewEndpointOutcomes(result.stream, url.Path) }
    /\ (callerPc = "returned" /\ connectReturn.endpoint /= None) =>
          /\ received = 1
          /\ result.error = None
          /\ connectReturn.endpoint = [stream |-> result.stream, path |-> url.Path]
          /\ connectReturn.error = None

\* Connect returned the wrapped error of a dial that failed.
C5_Witness ==
    /\ callerPc = "returned"
    /\ received = 1
    /\ result.error \in DialErrors
    /\ connectReturn.error.message = "unable to dial agent endpoint"
    /\ connectReturn.error.wraps = result.error

HasEntries == Cardinality(url.Environment) > 0 \/ Cardinality(url.Parameters) > 0
GoodKindAndProtocol == url.Kind = "Synchronization" /\ url.Protocol = "Exec"

\* C6: Connect (called within its precondition on kind and protocol) with a
\* URL that has an environment variable or an internal parameter returns a
\* validation error, the environment's when there is one; no transport is
\* built and no worker is started, then or ever.
C6_EntriesRejected ==
    (GoodKindAndProtocol /\ HasEntries) =>
        /\ transport = None
        /\ workerPc = "idle"
        /\ callerPc \in {"verify", "validate", "returned"}
        /\ callerPc = "returned" =>
              connectReturn =
                 IF Cardinality(url.Environment) > 0
                   THEN Return(None, NewError("exec URL contains environment variables"))
                   ELSE Return(None, NewError("exec URL contains internal parameters"))

\* Connect rejected a URL that has both an environment and parameters.
C6_Witness ==
    /\ GoodKindAndProtocol
    /\ Cardinality(url.Environment) > 0
    /\ Cardinality(url.Parameters) > 0
    /\ callerPc = "returned"
    /\ connectReturn.error.message = "exec URL contains environment variables"

\* C7: Connect with a URL whose kind is not Synchronization or whose protocol
\* is not Exec panics and does not return, whatever the URL's environment and
\* parameters (the check comes first); no transport is built and no dial is
\* started.
C7_WrongURLPanics ==
    (~GoodKindAndProtocol) =>
        /\ callerPc \in {"verify", "panicked"}
        /\ connectReturn.kind \in {"running", "panic"}
        /\ callerPc = "panicked" =>
              connectReturn =
                 IF url.Kind /= "Synchronization"
                   THEN Panic("non-synchronization URL dispatched to synchronization protocol handler")
                   ELSE Panic("non-Exec URL dispatched to Exec protocol handler")
        /\ transport = None
        /\ workerPc = "idle"

\* Connect panicked on a URL that also has entries the validation rejects.
C7_Witness ==
    /\ ~GoodKindAndProtocol
    /\ HasEntries
    /\ callerPc = "panicked"
    /\ connectReturn.kind = "panic"

\* C23: Connect has no timeout of its own. Once the worker is started, the
\* caller leaves its select only by receiving a dialResult or, with the
\* context cancelled, by returning the cancellation error; and while the dial
\* has not returned and the context is not cancelled, no step takes the
\* caller out of its select.
C23_NoTimeout ==
    /\ [][(callerPc = "select" /\ callerPc' /= "select") =>
             \/ /\ callerPc' = "received"
                /\ received' = received + 1
                /\ result' = dialed
                /\ workerPc = "select"
             \/ /\ ctxDone
                /\ callerPc' = "returned"
                /\ connectReturn' = Return(None, CancelledError)]_vars
    /\ [][(callerPc = "select" /\ workerPc = "dial" /\ ~ctxDone) =>
             (callerPc' = "select" /\ connectReturn' = connectReturn)]_vars

\* The caller waits, the dial has not returned and nobody has cancelled.
C23_Witness ==
    /\ callerPc = "select"
    /\ workerPc = "dial"
    /\ ~ctxDone
    /\ connectReturn = NotReturned

\* C24: once agent.Dial has returned, the worker ends: from its select it
\* gets to the end of its function, by the send (the caller received) or by
\* the cancellation branch; and a worker at its select always has one of the
\* two ready, the second one whenever the caller has already returned.
C24_WorkerTerminates ==
    /\ (workerPc = "select") ~> WorkerEnded
    /\ [](workerPc = "select" =>
             \/ callerPc = "select"
             \/ ctxDone /\ CallerEnded)

\* The dial failed after Connect had returned the cancellation error: the
\* worker ended by its cancellation branch, with no stream to close.
C24_Witness ==
    /\ workerPc = "cancelled"
    /\ ReturnedCancelled
    /\ dialed /= None
    /\ dialed.stream = Nil
    /\ streamState = "none"

-----------------------------------------------------------------------------
(* Properties of parseExec *)

Quotes == {DoubleQuote, SingleQuote}

\* The index of the quote character that closes the span opened at index j:
\* the next occurrence of the same character, Len(s) + 1 if there is none.
CloserOf(s, j) ==
    LET same == {k \in (j + 1) .. Len(s) : s[k] = s[j]}
    IN  IF same = {} THEN Len(s) + 1
        ELSE CHOOSE k \in same : \A m \in same : k <= m

\* Whether index i of s lies inside a quoted span, the spans being read off
\* from index from on (from lies outside every span): the first quote
\* character opens a span that runs to its closer, and the reading goes on
\* behind the closer.
RECURSIVE InSpan(_, _, _)
InSpan(s, from, i) ==
    LET opens == {j \in from .. Len(s) : s[j] \in Quotes}
    IN  IF opens = {} THEN FALSE
        ELSE LET j == CHOOSE x \in opens : \A y \in opens : x <= y
                 k == CloserOf(s, j)
             IN  IF i <= k THEN j < i /\ i < k
                 ELSE InSpan(s, k + 1, i)

InOpenQuote(s, i) == InSpan(s, 1, i)

\* Every quoted span of s is closed.
RECURSIVE Balanced(_, _)
Balanced(s, from) ==
    LET opens == {j \in from .. Len(s) : s[j] \in Quotes}
    IN  IF opens = {} THEN TRUE
        ELSE LET j == CHOOSE x \in opens : \A y \in opens : x <= y
                 k == CloserOf(s, j)
             IN  k <= Len(s) /\ Balanced(s, k + 1)

\* s has no ':' outside its quoted spans.
NoOpenColon(s) == \A i \in 1 .. Len(s) : s[i] = Colon => InOpenQuote(s, i)

\* C8: while the parser scans, a split never occurs inside an open quote:
\* among the runes scanned so far, the closure accepted exactly the ':' that
\* lie outside every quoted span, a span being closed only by the character
\* that opened it; and every ':' in a field found lies inside a quoted span.
C8_NoSplitInsideQuote ==
    parsePc \in {"scan", "fields", "done"} =>
        /\ \A i \in 1 .. pos :
              (i \in seps) <=> (raw[i] = Colon /\ ~InOpenQuote(raw, i))
        /\ \A i \in seps : ~InOpenQuote(raw, i)
        /\ \A f \in 1 .. Len(split) : NoOpenColon(split[f])

\* The scan has passed a ':' inside a span opened by '"' that also holds a
\* "'", and has split at another ':'.
C8_Witness ==
    /\ parsePc = "done"
    /\ seps /= {}
    /\ \E i, j, k \in 1 .. Len(raw) :
          /\ i < j /\ j < k
          /\ raw[i] = DoubleQuote /\ raw[j] = SingleQuote /\ raw[k] = Colon
          /\ InOpenQuote(raw, k)
          /\ k \notin seps

\* C9: parseExec decides by the number of fields of the split: none is the
\* error "no command or path specified", more than two the error "too many
\* separators", one is the command (quotes stripped) with an empty path, two
\* are the command (quotes stripped) and the path; a success is a URL of
\* protocol Exec with the command as Host and the path as Path.
C9_DecidedByFieldCount ==
    parsePc = "done" =>
        CASE Len(split) = 0 ->
               parsed = ParseResult(None, NewError("no command or path specified"))
          [] Len(split) > 2 ->
               parsed = ParseResult(None, NewError("too many separators"))
          [] Len(split) = 1 ->
               /\ parsed.error = None
               /\ parsed.url.Kind = kind
               /\ parsed.url.Protocol = "Exec"
               /\ parsed.url.Host \in {split[1], Inner(split[1])}
               /\ parsed.url.Path = <<>>
          [] Len(split) = 2 ->
               /\ parsed.error = None
               /\ parsed.url.Kind = kind
               /\ parsed.url.Protocol = "Exec"
               /\ parsed.url.Host \in {split[1], Inner(split[1])}
               /\ parsed.url.Path = split[2]

\* A text of two fields was parsed into a command and a path.
C9_Witness ==
    /\ parsePc = "done"
    /\ Len(split) = 2
    /\ parsed.error = None
    /\ parsed.url.Host = split[1]
    /\ parsed.url.Path = split[2]

\* The command of a valid exec URL: not empty, its quoted spans closed, no ':'
\* outside them; the path: no ':' outside its quoted spans.
ValidCommand(cmd) == Len(cmd) > 0 /\ Balanced(cmd, 1) /\ NoOpenColon(cmd)
ValidPath(path) == NoOpenColon(path)

\* The command that matches cmd modulo quote stripping: cmd itself, or what
\* is inside when cmd is wrapped in a pair of the same quote character.
MatchesCommand(host, cmd) ==
    IF Len(cmd) >= 2 /\ cmd[1] \in Quotes /\ cmd[Len(cmd)] = cmd[1]
      THEN host = Inner(cmd)
      ELSE host = cmd

\* C10: for every valid URL exec:<cmd>:<path>, parsing succeeds with a
\* command that is <cmd> modulo quote stripping and a path that is <path>
\* as written.
C10_RoundTrip ==
    parsePc = "done" =>
        \A n \in 1 .. Len(raw) :
            LET cmd == SubSeq(raw, 1, n - 1)
                path == SubSeq(raw, n + 1, Len(raw))
            IN  (raw[n] = Colon /\ ValidCommand(cmd) /\ ValidPath(path)) =>
                   /\ parsed.error = None
                   /\ MatchesCommand(parsed.url.Host, cmd)
                   /\ parsed.url.Path = path

\* A URL with a quoted command that holds a ':' and a path in quotes.
C10_Witness ==
    /\ parsePc = "done"
    /\ parsed.error = None
    /\ \E n \in 1 .. Len(raw) :
          LET cmd == SubSeq(raw, 1, n - 1)
              path == SubSeq(raw, n + 1, Len(raw))
          IN  /\ raw[n] = Colon /\ ValidCommand(cmd) /\ ValidPath(path)
              /\ Len(path) > 0
              /\ \E i \in 1 .. Len(cmd) : cmd[i] = Colon
              /\ parsed.url.Host = Inner(cmd)
              /\ parsed.url.Path = path

\* The field is wrapped in a pair of the same quote character.
Wrapped(field) ==
    /\ Len(field) >= 2
    /\ field[1] \in Quotes
    /\ field[Len(field)] = field[1]

\* The places where a field starts: a rune that is no separator, at the
\* start of the text or right behind a separator.
FieldStarts == {i \in 1 .. Len(raw) : i \notin seps /\ (i = 1 \/ i - 1 \in seps)}

\* C25: the split drops empty fields. No field is empty and there are as
\* many fields as runs of runes between separators, so that leading, trailing
\* and consecutive unquoted colons add none; a text of unquoted colons only
\* has no field and is the error "no command or path specified"; and a text
\* of one colon followed by a text without colons has that text as its only
\* field, returned as the command (outer quotes stripped) with an empty
\* path.
C25_EmptyFieldsDropped ==
    parsePc \in {"fields", "done"} =>
        /\ \A f \in 1 .. Len(split) : Len(split[f]) > 0
        /\ Len(split) = Cardinality(FieldStarts)
        /\ (\A i \in 1 .. Len(raw) : raw[i] = Colon) =>
              /\ split = <<>>
              /\ parsePc = "done" =>
                    parsed = ParseResult(None, NewError("no command or path specified"))
        /\ (/\ Len(raw) >= 2
            /\ raw[1] = Colon
            /\ \A i \in 2 .. Len(raw) : raw[i] /= Colon) =>
              LET rest == SubSeq(raw, 2, Len(raw))
              IN  /\ split = <<rest>>
                  /\ parsePc = "done" =>
                        /\ parsed.error = None
                        /\ parsed.url.Host =
                              IF Wrapped(rest)
                                THEN SubSeq(rest, 2, Len(rest) - 1)
                                ELSE rest
                        /\ parsed.url.Path = <<>>

\* An empty command before the colon: what was meant as the path came back
\* as the command.
C25_Witness ==
    /\ parsePc = "done"
    /\ Len(raw) >= 2
    /\ raw[1] = Colon
    /\ parsed.error = None
    /\ parsed.url.Host = SubSeq(raw, 2, Len(raw))
    /\ parsed.url.Path = <<>>


\* C11: after the split, a command field wrapped in a pair of single quotes
\* or of double quotes loses exactly that outer pair (what is between them
\* stays as it is, quote characters included), any other command field is
\* kept whole, and the path field is returned with its quote characters
\* unchanged.
C11_OuterQuotesStripped ==
    (parsePc = "done" /\ parsed.error = None) =>
        /\ Wrapped(split[1]) =>
              /\ Len(parsed.url.Host) = Len(split[1]) - 2
              /\ \A i \in 1 .. Len(parsed.url.Host) :
                    parsed.url.Host[i] = split[1][i + 1]
        /\ ~Wrapped(split[1]) => parsed.url.Host = split[1]
        /\ Len(split) = 2 => parsed.url.Path = split[2]

\* A command in single quotes around a double quote, and a path that holds a
\* quote character.
C11_Witness ==
    /\ parsePc = "done"
    /\ parsed.error = None
    /\ Len(split) = 2
    /\ split[1] = <<SingleQuote, DoubleQuote, SingleQuote>>
    /\ parsed.url.Host = <<DoubleQuote>>
    /\ \E i \in 1 .. Len(split[2]) : split[2][i] \in Quotes
    /\ parsed.url.Path = split[2]

-----------------------------------------------------------------------------
(* Properties of execTransport.Command *)

UnsupportedCommand ==
    CommandResult(None, NewError("transport does not support this command"))
NoKubectl ==
    CommandResult(None, NewError("unable to identify kubectl invocation"))

\* The places (from 1) at which sub occurs in s.
Occurrences(s, sub) ==
    {i \in 1 .. Len(s) : i + Len(sub) - 1 <= Len(s)
                           /\ \A k \in 1 .. Len(sub) : s[i + k - 1] = sub[k]}

\* C12: a call of Command with a string that does not hold the sentinel
\* fails with "transport does not support this command" and returns no
\* process descriptor, whatever the stored command. (Stated for every copy
\* of Command the file holds.)
C12_NoSentinelRejected ==
    \A c \in calls :
        Occurrences(c.command, BaseName) = {} => c.ret = UnsupportedCommand

\* C13: Command called with a string that holds the sentinel ignores what
\* the string says: two such calls on the same transport give the same
\* outcome; and (first copy) when the stored command lacks the marker the
\* outcome is the failure "unable to identify kubectl invocation".
C13_ArgumentIgnored ==
    /\ \A c, d \in calls :
          (/\ c.copy = d.copy
           /\ Occurrences(c.command, BaseName) /= {}
           /\ Occurrences(d.command, BaseName) /= {}) => c.ret = d.ret
    /\ \A c \in calls :
          (/\ c.copy = 1
           /\ Occurrences(c.command, BaseName) /= {}
           /\ Occurrences(t.command, FirstSplitIndicator(goos)) = {}) =>
              c.ret = NoKubectl

\* Two calls of the first copy with different strings, one of which holds
\* the marker itself, gave the same process descriptor.
C13_Witness ==
    \E c, d \in calls :
        /\ c.copy = 1 /\ d.copy = 1
        /\ c.command /= d.command
        /\ Occurrences(c.command, FirstSplitIndicator(goos)) /= {}
        /\ Occurrences(d.command, BaseName) /= {}
        /\ c.ret.error = None
        /\ c.ret = d.ret

\* The arguments joined by single spaces.
RECURSIVE JoinWithSpaces(_)
JoinWithSpaces(args) ==
    IF Len(args) = 0 THEN <<>>
    ELSE IF Len(args) = 1 THEN args[1]
    ELSE args[1] \o <<Space>> \o JoinWithSpaces(Tail(args))

\* C14: when the stored command holds the marker, Command (first copy,
\* called with the sentinel) succeeds; argument 0 is the stored command up to
\* and including the marker (its first occurrence) without the marker's
\* trailing space, and the other arguments are the text behind the marker
\* split at every single space: none holds a space, there is one more of
\* them than spaces in that text, and joined by spaces they give it back.
C14_SplitAtMarker ==
    \A c \in calls :
        LET marker == FirstSplitIndicator(goos)
            places == Occurrences(t.command, marker)
        IN  (c.copy = 1 /\ Occurrences(c.command, BaseName) /= {} /\ places /= {}) =>
              LET first == CHOOSE i \in places : \A j \in places : i <= j
                  behind == SubSeq(t.command, first + Len(marker), Len(t.command))
                  name == c.ret.cmd.name
                  args == c.ret.cmd.args
              IN  /\ c.ret.error = None
                  /\ name \o <<Space>> = SubSeq(t.command, 1, first + Len(marker) - 1)
                  /\ \A a \in 1 .. Len(args) : Occurrences(args[a], <<Space>>) = {}
                  /\ Len(args) = Cardinality(Occurrences(behind, <<Space>>)) + 1
                  /\ JoinWithSpaces(args) = behind

\* A wrapper path with a prefix before the marker, and one more space behind
\* it: two empty arguments.
C14_Witness ==
    \E c \in calls :
        /\ c.copy = 1
        /\ c.ret.error = None
        /\ c.ret.cmd.name = <<"x">> \o Kubectl
        /\ c.ret.cmd.args = << <<>>, <<>> >>

\* C26: a successful Command (first copy) loses nothing of the stored
\* command. The name followed by a space ends in the marker and holds it
\* nowhere else (the first occurrence is the split point); there is at least
\* one argument; an argument is empty exactly where a space follows the
\* marker or another space, or ends the command; and the name, a space and
\* the arguments joined by single spaces are the stored command.
C26_NothingLost ==
    \A c \in calls :
        (c.copy = 1 /\ c.ret.error = None) =>
            LET marker == FirstSplitIndicator(goos)
                name == c.ret.cmd.name
                args == c.ret.cmd.args
                head == name \o <<Space>>
            IN  /\ Occurrences(head, marker) = {Len(head) - Len(marker) + 1}
                /\ Len(args) >= 1
                /\ head \o JoinWithSpaces(args) = t.command
                /\ \A a \in 1 .. Len(args) : Occurrences(args[a], <<Space>>) = {}

\* A stored command with the marker twice and a space at its end: the second
\* marker is an argument, and the last argument is empty.
C26_Witness ==
    \E c \in calls :
        /\ c.copy = 1
        /\ c.ret.error = None
        /\ Cardinality(Occurrences(t.command, FirstSplitIndicator(goos))) >= 2
        /\ c.ret.cmd.args[Len(c.ret.cmd.args)] = <<>>
        /\ Len(c.ret.cmd.args) >= 2

-----------------------------------------------------------------------------
(* Properties of execTransport.ClassifyError, execTransport.Copy and the    *)
(* retry loop                                                               *)

\* A classification has been made of the failure at hand.
Classified == classification /= None

\* C15: ClassifyError looks at four patterns in order and the first match
\* wins: the POSIX shell's invalid-command exit state gives (false, false,
\* nil), whatever the output holds; so does its command-not-found exit state;
\* with neither, an output with Windows' invalid-command text gives (false,
\* true, nil), and so does one with Windows' command-not-found text; with
\* none of the four, the result is (false, false, "unknown error condition
\* encountered").
C15_FirstMatchWins ==
    Classified =>
        LET posix == \/ IsPOSIXShellInvalidCommand(failure.processState)
                     \/ IsPOSIXShellCommandNotFound(failure.processState)
            windows == \/ OutputIsWindowsInvalidCommand(failure.errorOutput)
                       \/ OutputIsWindowsCommandNotFound(failure.errorOutput)
        IN  /\ IsPOSIXShellInvalidCommand(failure.processState) =>
                  classification = Classification(FALSE, FALSE, None)
            /\ IsPOSIXShellCommandNotFound(failure.processState) =>
                  classification = Classification(FALSE, FALSE, None)
            /\ (~posix /\ OutputIsWindowsInvalidCommand(failure.errorOutput)) =>
                  classification = Classification(FALSE, TRUE, None)
            /\ (~posix /\ OutputIsWindowsCommandNotFound(failure.errorOutput)) =>
                  classification = Classification(FALSE, TRUE, None)
            /\ (~posix /\ ~windows) =>
                  classification =
                      Classification(FALSE, FALSE,
                                     NewError("unknown error condition encountered"))

\* A POSIX exit state together with a Windows text: the POSIX pattern, the
\* earlier one, decided.
C15_Witness ==
    /\ Classified
    /\ IsPOSIXShellCommandNotFound(failure.processState)
    /\ OutputIsWindowsInvalidCommand(failure.errorOutput)
    /\ classification = Classification(FALSE, FALSE, None)

\* C16: whatever the exit state and the error output, ClassifyError returns
\* tryInstall = false.
C16_NeverTryInstall == Classified => classification.tryInstall = FALSE

\* Classified: the shell did not find the command, which is where an
\* installation would help.
C16_Witness ==
    /\ Classified
    /\ IsPOSIXShellCommandNotFound(failure.processState)
    /\ classification.tryInstall = FALSE

\* C27: in ClassifyError the POSIX exit states come before the Windows
\* outputs: with an exit state that matches a POSIX pattern the result has
\* switchHypothesis = false, whatever the output holds; and in every result
\* switchHypothesis = true comes with a nil error, a non-nil error with
\* switchHypothesis = false.
C27_POSIXBeforeWindows ==
    Classified =>
        /\ (\/ IsPOSIXShellInvalidCommand(failure.processState)
            \/ IsPOSIXShellCommandNotFound(failure.processState)) =>
               classification.switchHypothesis = FALSE
        /\ classification.switchHypothesis => classification.error = None
        /\ classification.error /= None => classification.switchHypothesis = FALSE

\* The shell's invalid-command exit state with cmd.exe's command-not-found
\* text in the output: no switch.
C27_Witness ==
    /\ Classified
    /\ IsPOSIXShellInvalidCommand(failure.processState)
    /\ OutputIsWindowsCommandNotFound(failure.errorOutput)
    /\ classification.switchHypothesis = FALSE
    /\ classification.error = None

\* C17: when ClassifyError returns the unknown-error failure for a failed
\* attempt, the loop's reaction ends the logical connect: it returns that
\* failure, makes no further attempt and leaves the hypothesis as it was; and
\* in every state where the classification at hand is the unknown error, the
\* loop has ended with it.
C17_UnknownErrorAborts ==
    /\ [](Classified /\ classification.error /= None =>
              /\ loopPc = "done"
              /\ dialReturn = DialFailure(classification.error))
    /\ [][(loopPc = "failed" /\ loopPc' /= "failed"
             /\ ClassifyError(t, failure.processState, failure.errorOutput).error /= None)
          => /\ loopPc' = "done"
             /\ dialReturn' = DialFailure(UnknownErrorCondition)
             /\ attempts' = attempts
             /\ hypothesis' = hypothesis]_vars
    /\ [][loopPc = "done" => (attempts' = attempts /\ loopPc' = "done"
                                /\ dialReturn' = dialReturn
                                /\ hypothesis' = hypothesis)]_vars

\* After one switch of hypothesis the second attempt failed in an unknown
\* way: the loop ended there, under the Windows hypothesis, with attempts to
\* spare.
C17_Witness ==
    /\ loopPc = "done"
    /\ Classified
    /\ classification.error = UnknownErrorCondition
    /\ dialReturn = DialFailure(UnknownErrorCondition)
    /\ hypothesis = WindowsCmd
    /\ attempts < MaxAttempts

C19_HypothesisFlips ==
    /\ [](attempts = 0 => hypothesis = POSIXShell)
    /\ [][hypothesis' /= hypothesis =>
             /\ loopPc = "failed"
             /\ ~Classified
             /\ classification' /= None
             /\ classification' =
                    ClassifyError(t, failure.processState, failure.errorOutput)
             /\ classification'.switchHypothesis
             /\ hypothesis' = Flip(hypothesis)]_vars
    /\ [][(~Classified /\ classification' /= None
             /\ ~classification'.switchHypothesis) =>
                hypothesis' = hypothesis]_vars

\* The loop gave up under the Windows hypothesis on a failure that was no
\* reason to switch.
C19_Witness ==
    /\ hypothesis = WindowsCmd
    /\ loopPc = "done"
    /\ Classified
    /\ classification = Classification(FALSE, FALSE, None)

\* C20: no remote installation is performed in any sequence of attempts, and
\* every call of Copy returns nil and leaves the transport's command and
\* prompter and the files on the remote as they were.
C20_NoInstallCopyNoOp ==
    /\ [](installs = 0)
    /\ [](\A i \in 1 .. Len(copyReturns) : copyReturns[i] = None)
    /\ [][t' = t /\ remote' = remote]_vars

\* Copy was called on a remote without the agent, and attempts failed with
\* the shell not finding the command: nothing was installed.
C20_Witness ==
    /\ Len(copyReturns) >= 1
    /\ loopPc = "done"
    /\ Classified
    /\ IsPOSIXShellCommandNotFound(failure.processState)
    /\ remote = {}
    /\ installs = 0

-----------------------------------------------------------------------------
(* Properties of ServeEndpoint *)

\* C21: ServeEndpoint serves until accepting a sub-stream fails, and then
\* returns the error wrapped as "error serving RPC requests", never nil: it
\* leaves its accepting only by a failed accept, while it accepts a further
\* sub-stream can be accepted, what it returns wraps the accept's error, and
\* after a failed accept (the first one included) it does return.
C21_ServesUntilAcceptFails ==
    /\ [][(servePc = "accept" /\ servePc' /= "accept") =>
             (servePc' = "failed" /\ acceptErr' \in AcceptErrors)]_vars
    /\ []((servePc = "accept" /\ Len(substreams) < MaxAccepts) => ENABLED Accept)
    /\ [](servePc = "returned" =>
             /\ serveReturn.kind = "return"
             /\ serveReturn.error /= None
             /\ serveReturn.error.message = "error serving RPC requests"
             /\ serveReturn.error.wraps = acceptErr
             /\ acceptErr \in AcceptErrors)
    /\ [](serveReturn /= ServeRunning => servePc = "returned")
    /\ (servePc = "failed") ~> (servePc = "returned")

\* The first accept failed: ServeEndpoint returned the wrapped error with no
\* sub-stream served.
C21_Witness ==
    /\ servePc = "returned"
    /\ substreams = <<>>
    /\ serveReturn = ServeReturned([message |-> "error serving RPC requests",
                                    wraps |-> acceptErr])

\* The four method names.
EndpointMethods ==
    {endpointMethodScan, endpointMethodTransmit, endpointMethodApply,
     endpointMethodUpdate}

\* C22: from before the first accept on, the server's handlers are exactly
\* the four names endpoint.Scan, endpoint.Transmit, endpoint.Apply and
\* endpoint.Update, each bound to the handler of that name of the one
\* endpoint, whose client is the RPC client over the multiplexer (Server
\* role, backlog 100) of the stream; and they do not change while serving.
C22_FourMethodsBound ==
    /\ [](servePc \in {"accept", "failed", "returned"} =>
             /\ DOMAIN server.handlers = EndpointMethods
             /\ server.handlers[endpointMethodScan] = Handler(theEndpoint, "scan")
             /\ server.handlers[endpointMethodTransmit] = Handler(theEndpoint, "transmit")
             /\ server.handlers[endpointMethodApply] = Handler(theEndpoint, "apply")
             /\ server.handlers[endpointMethodUpdate] = Handler(theEndpoint, "update")
             /\ theEndpoint.client = client
             /\ client.multiplexer = multiplexer
             /\ multiplexer.stream = serveStream
             /\ multiplexer.role = "Server"
             /\ multiplexer.AcceptBacklog = 100)
    /\ [](servePc = "start" => substreams = <<>>)
    /\ [][servePc /= "start" =>
             /\ server' = server
             /\ theEndpoint' = theEndpoint
             /\ client' = client
             /\ multiplexer' = multiplexer]_vars

\* A call of endpoint.Update was served by the endpoint's update, and a call
\* of a name that is not in the table was rejected.
C22_Witness ==
    /\ \E i \in 1 .. Len(substreams) :
          /\ substreams[i].method = endpointMethodUpdate
          /\ substreams[i].state = "served"
          /\ substreams[i].handler = Handler(theEndpoint, "update")
    /\ \E i \in 1 .. Len(substreams) : substreams[i].state = "rejected"

-----------------------------------------------------------------------------
(* Properties of the compose commands and of LoadProject *)

\* The place of a call among the calls made, 0 if it was not made.
Place(e) ==
    IF \E i \in 1 .. Len(events) : events[i] = e
      THEN CHOOSE i \in 1 .. Len(events) : events[i] = e
      ELSE 0

\* A pause step was made; a pause step failed.
Paused == Place("pause forwarding") > 0 \/ Place("pause synchronization") > 0
PauseFailed ==
    /\ composeReturn.kind = "return"
    /\ composeReturn.error /= None
    /\ composeReturn.error.message = "unable to pause Mutagen sessions"
    /\ composeReturn.error.wraps.message
         \in {"forwarding pausing failed", "synchronization pausing failed"}

\* What holds of stop whatever is meant by "is invoked": sessions are paused
\* only when no services are named, forwarding before synchronization before
\* the pass-through, and a failed pause step means no pass-through.
StopOrder ==
    /\ Paused => Len(arguments) = 0
    /\ Place("pause synchronization") > 0 =>
          /\ Place("pause forwarding") > 0
          /\ Place("pause forwarding") < Place("pause synchronization")
    /\ (Place("invoke") > 0 /\ Len(arguments) = 0) =>
          /\ Place("pause synchronization") > 0
          /\ Place("pause synchronization") < Place("invoke")
    /\ PauseFailed => (invoked = None /\ Place("invoke") = 0)
    /\ invoked /= None => invoked = Invocation("stop", arguments)

\* C28 (as stated): stop pauses sessions only when no services are named,
\* then in the order forwarding, synchronization, pass-through; a failed
\* pause step means no pass-through; and when services are named, the
\* command ends with the pass-through invoked and no pause made.
C28_StopNamedInvokes ==
    composeCommand = "stop" =>
        /\ StopOrder
        /\ (composePc = "done" /\ Len(arguments) > 0) =>
              (invoked /= None /\ ~Paused)

\* C28 (amended): as above, but with services named the pass-through is
\* invoked, with no pause, when none of them is the Mutagen service and the
\* project has loaded: the calls made are then the load, the pass-through and
\* the disposal. A command that names the Mutagen service ends with the error
\* "the Mutagen service should not be controlled directly" and no call made.
C28_StopNamedInvokesIfLoaded ==
    composeCommand = "stop" =>
        /\ StopOrder
        /\ (composePc = "done" /\ Len(arguments) > 0 /\ project /= None) =>
              /\ invoked = Invocation("stop", arguments)
              /\ ~Paused
              /\ events = <<"load", "invoke", "dispose">>
        /\ (composePc = "done" /\ Len(arguments) > 0
              /\ ~NamesMutagenService(arguments)
              /\ loadReturn.kind = "return" /\ loadReturn.error = None) =>
                  project /= None
        /\ (composePc = "done" /\ NamesMutagenService(arguments)) =>
              /\ composeReturn = ComposeReturned(
                    NewError("the Mutagen service should not be controlled directly"))
              /\ invoked = None
              /\ events = <<>>

\* stop with a service named: the pass-through was invoked with no pause.
C28_Witness ==
    /\ composeCommand = "stop"
    /\ composePc = "done"
    /\ Len(arguments) > 0
    /\ invoked = Invocation("stop", arguments)
    /\ events = <<"load", "invoke", "dispose">>

\* A resume step was made.
Resumed ==
    \/ Place("resume forwarding") > 0
    \/ Place("resume synchronization") > 0

\* C29: start resumes sessions only after its pass-through has returned
\* without an error, forwarding before synchronization; with a failed
\* pass-through no session is resumed and the pass-through's error is what
\* the command returns; and a command that names the Mutagen service fails
\* with nothing loaded, nothing invoked and nothing resumed.
C29_StartInvokesThenResumes ==
    composeCommand = "start" =>
        /\ (Resumed \/ Place("daemon connect") > 0) =>
              /\ invoked = Invocation("start", StartArguments(arguments))
              /\ invokeResult = None
              /\ Place("invoke") > 0
              /\ Place("invoke") < Place("daemon connect")
        /\ Place("resume forwarding") > 0 =>
              Place("daemon connect") < Place("resume forwarding")
        /\ Place("resume synchronization") > 0 =>
              /\ Place("resume forwarding") > 0
              /\ Place("resume forwarding") < Place("resume synchronization")
        /\ (invoked /= None /\ invokeResult /= None) =>
              /\ ~Resumed
              /\ Place("daemon connect") = 0
              /\ composePc = "done"
              /\ composeReturn = ComposeReturned(invokeResult)
        /\ NamesMutagenService(arguments) =>
              /\ composePc \in {"check", "done"}
              /\ events = <<>>
              /\ loadReturn = None
              /\ project = None
              /\ invoked = None
              /\ composePc = "done" =>
                    composeReturn = ComposeReturned(
                        NewError("the Mutagen service should not be controlled directly"))

\* start with a service named ran to its end: the pass-through (with the
\* Mutagen service added), then the sessions resumed, forwarding first.
C29_Witness ==
    /\ composeCommand = "start"
    /\ composePc = "done"
    /\ Len(arguments) > 0
    /\ invoked = Invocation("start", Append(arguments, MutagenServiceName))
    /\ composeReturn = ComposeReturned(None)
    /\ events = <<"load", "invoke", "daemon connect", "resume forwarding",
                  "resume synchronization", "dispose">>

\* The paths of the temporary directory of this call that exist.
Remaining == {p \in fs : p[1] = temporaryDirectory}

\* C30: after a return of LoadProject that reports an error nothing of the
\* temporary directory it made exists; after its successful return the
\* directory exists, is the project's, and stays until the caller's Dispose;
\* after Dispose, and at the end of the command in any case, nothing of it
\* exists.
C30_TemporaryDirectoryRemoved ==
    /\ (loadReturn /= None /\ loadReturn.kind = "return" /\ loadReturn.error /= None) =>
          Remaining = {}
    /\ (loadReturn /= None /\ loadReturn.kind = "return" /\ loadReturn.error = None) =>
          /\ successful
          /\ loadReturn.project.temporaryDirectory = temporaryDirectory
          /\ Place("dispose") = 0 => Directory(temporaryDirectory) \in fs
          /\ composePc = "done" => Place("dispose") > 0
    /\ Place("dispose") > 0 => Remaining = {}
    /\ composePc = "done" => Remaining = {}

\* The project was loaded with the standard input stored in the directory,
\* the command ended, and of the directory nothing is left (another
\* directory is).
C30_Witness ==
    /\ composePc = "done"
    /\ loadReturn /= None
    /\ loadReturn.kind = "return"
    /\ loadReturn.error = None
    /\ temporaryDirectory = "io.mutagen.compose.2"
    /\ fs = {Directory("io.mutagen.compose.1")}
    /\ Place("dispose") > 0

=============================================================================
